---------------------------- MODULE Spec2Model ----------------------------
(***************************************************************************)
(* Slice vectorisation and layer-file (CLI) interchange of PicoGK:         *)
(* src/src/slice.rs (PolyContour, PolySlice, PolySliceStack, from_sdf),    *)
(* src/src/cli.rs (CliIo writer and reader) and the bounding boxes of      *)
(* src/picogk-rs/src/types.rs.                                             *)
(*                                                                         *)
(* Numbers.  The program computes in f32.  The model computes in exact     *)
(* fixed point: a value v stands for v / One, One = 10^6, so that the      *)
(* 1e-6 bias of zero_crossing and the 5-decimal text format are exact.     *)
(* Products of two such values do not fit TLC's 32-bit integers and are    *)
(* kept as two-limb values [h, l] = h * One + l.                           *)
(***************************************************************************)
EXTENDS Integers, Sequences, FiniteSets, TLC

\* ------------------------------------------------------------------ bounds
MaxVerts == 4         \* longest vertex list drawn for detect_winding
MaxCoord == 1         \* largest whole coordinate drawn for detect_winding
MaxPixels == 9        \* rasters of from_sdf have at most this many pixels
MaxSlices == 2        \* most slices of a stack built for the writer
MaxContours == 2      \* most contours of such a stack, over all its slices
MaxOps == 7           \* most method calls on contours, slices and stacks
MaxDepth == 3         \* most voxel layers of a field given to vectorize
MaxThreads == 3       \* threads that call with_ffi_lock
MaxNest == 3          \* deepest nesting of with_ffi_lock calls in one thread
MaxLines == 8         \* most physical lines of a file given to the reader

\* ----------------------------------------------------------- number model
One == 1000000

Abs(a) == IF a < 0 THEN -a ELSE a
Min2(a, b) == IF a < b THEN a ELSE b
Max2(a, b) == IF a > b THEN a ELSE b

\* two-limb product a * b = h * One + l, 0 <= l < One (floor convention)
WNorm(h, l) == [h |-> h + (l \div One), l |-> l % One]
WMulLimbs(hh, mid, ll) == WNorm(hh + (mid \div 1000), (mid % 1000) * 1000 + ll)
WMulSplit(ah, al, bh, bl) == WMulLimbs(ah * bh, ah * bl + al * bh, al * bl)
WMul(a, b) == WMulSplit(a \div 1000, a % 1000, b \div 1000, b % 1000)
WAdd(u, v) == WNorm(u.h + v.h, u.l + v.l)
WZero == [h |-> 0, l |-> 0]
WLess(u, v) == u.h < v.h \/ (u.h = v.h /\ u.l < v.l)
WPos(u) == WLess(WZero, u)
WNeg(u) == WLess(u, WZero)

\* ------------------------------------------------------------- slice.rs
Windings == {"Unknown", "Clockwise", "CounterClockwise"}

RECURSIVE ShoelaceFrom(_, _)
\* the loop of detect_winding from index i on: sum of (xj - xi) * (yj + yi)
ShoelaceFrom(vertices, i) ==
  IF i > Len(vertices) THEN WZero
  ELSE LET j == (i % Len(vertices)) + 1
       IN  WAdd(WMul(vertices[j][1] - vertices[i][1],
                     vertices[j][2] + vertices[i][2]),
                ShoelaceFrom(vertices, i + 1))

\* the sign test with its two outcomes exchanged
WindingOfAreaSwapped(area) ==
  IF WPos(area) THEN "CounterClockwise"
  ELSE IF WNeg(area) THEN "Clockwise"
  ELSE "Unknown"

\* the sign test of detect_winding on the area summed
WindingOfArea(area) ==
  IF WPos(area) THEN "Clockwise"
  ELSE IF WNeg(area) THEN "CounterClockwise"
  ELSE "Unknown"

DetectWinding(vertices) ==
  IF Len(vertices) < 3 THEN "Unknown"
  ELSE WindingOfArea(ShoelaceFrom(vertices, 1))

\* ------------------------------------------------ slice.rs: from_sdf
\* Option<usize>::None
NoIdx == -1

Floor(v) == (v \div One) * One
Ceil(v) == -Floor(-v)
\* a * b of two fixed-point values, rounded to the nearest 1e-6
RoundLimbs(w) == w.h + (IF 2 * w.l >= One THEN 1 ELSE 0)
MulFix(a, b) == RoundLimbs(WMul(a, b))
\* (p - q).norm_squared() as a two-limb value
SumSquares(dx, dy) == WAdd(WMul(dx, dx), WMul(dy, dy))
NormSquared(p, q) == SumSquares(p[1] - q[1], p[2] - q[2])
\* the f32 literal 1.0 as a squared distance
SqrOne == [h |-> One, l |-> 0]

\* the table with the two segments of the saddle rows 5 and 10 exchanged
EDGE_LUT_SaddlesSwapped ==
  << <<0, -1, -1, -1, -1>>,  <<9, 0, 3, -1, -1>>,
     <<3, 1, 0, -1, -1>>,    <<10, 1, 3, -1, -1>>,
     <<6, 2, 1, -1, -1>>,    <<15, 3, 0, 1, 2>>,
     <<5, 2, 0, -1, -1>>,    <<12, 2, 3, -1, -1>>,
     <<12, 3, 2, -1, -1>>,   <<5, 0, 2, -1, -1>>,
     <<15, 0, 1, 2, 3>>,     <<6, 1, 2, -1, -1>>,
     <<10, 3, 1, -1, -1>>,   <<3, 0, 1, -1, -1>>,
     <<9, 3, 0, -1, -1>>,    <<0, -1, -1, -1, -1>> >>

\* const EDGE_LUT: [[i8; 5]; 16]
EDGE_LUT ==
  << <<0, -1, -1, -1, -1>>,  <<9, 0, 3, -1, -1>>,
     <<3, 1, 0, -1, -1>>,    <<10, 1, 3, -1, -1>>,
     <<6, 2, 1, -1, -1>>,    <<15, 0, 1, 2, 3>>,
     <<5, 2, 0, -1, -1>>,    <<12, 2, 3, -1, -1>>,
     <<12, 3, 2, -1, -1>>,   <<5, 0, 2, -1, -1>>,
     <<15, 3, 0, 1, 2>>,     <<6, 1, 2, -1, -1>>,
     <<10, 3, 1, -1, -1>>,   <<3, 0, 1, -1, -1>>,
     <<9, 3, 0, -1, -1>>,    <<0, -1, -1, -1, -1>> >>

\* (a.abs() / (a.abs() + b.abs())) + 1e-6; pixel values are whole numbers
zero_crossing(a, b) == ((Abs(a) * One) \div (Abs(a) + Abs(b))) + 1

\* Segment::new
SegmentNew(start, end) ==
  [start |-> start, end |-> end,
   min_y |-> Min2(start[2], end[2]), max_y |-> Max2(start[2], end[2]),
   used |-> FALSE]

gray_value(img, x, y) == img.px[<<x, y>>]

\* lut_index of the cell (x, y): bit i set when corner i is < 0
LutIndex(img, x, y) ==
    (IF gray_value(img, x, y) < 0 THEN 1 ELSE 0)
  + (IF gray_value(img, x + 1, y) < 0 THEN 2 ELSE 0)
  + (IF gray_value(img, x + 1, y + 1) < 0 THEN 4 ELSE 0)
  + (IF gray_value(img, x, y + 1) < 0 THEN 8 ELSE 0)

\* the bit test with 1 << (e + 1) for 1 << e
BitSetShifted(mask, e) == (mask \div (2 ^ (e + 1))) % 2 = 1

\* edges_crossed & (1 << e) != 0
BitSet(mask, e) == (mask \div (2 ^ e)) % 2 = 1

\* crossings[e] of the cell (x, y), Vector2::zeros() where the edge is not crossed
Crossing(img, x, y, e) ==
  IF ~BitSet(EDGE_LUT[LutIndex(img, x, y) + 1][1], e) THEN <<0, 0>>
  ELSE CASE e = 0 -> <<x * One + zero_crossing(gray_value(img, x, y),
                                               gray_value(img, x + 1, y)),
                       y * One>>
         [] e = 1 -> <<x * One + One,
                       y * One + zero_crossing(gray_value(img, x + 1, y),
                                               gray_value(img, x + 1, y + 1))>>
         [] e = 2 -> <<x * One + zero_crossing(gray_value(img, x, y + 1),
                                               gray_value(img, x + 1, y + 1)),
                       y * One + One>>
         [] e = 3 -> <<x * One,
                       y * One + zero_crossing(gray_value(img, x, y),
                                               gray_value(img, x, y + 1))>>

\* offset + crossing * scale
ToOutput(p, offset, scale) ==
  <<offset[1] + MulFix(p[1], scale), offset[2] + MulFix(p[2], scale)>>

RECURSIVE RowSegments(_, _, _, _, _, _, _)
\* the while seg_index < 5 loop for one cell, row = EDGE_LUT[lut_index]
RowSegments(img, x, y, offset, scale, row, seg_index) ==
  IF row[1] = 0 \/ seg_index >= 5 THEN << >>
  ELSE IF row[seg_index + 1] < 0 THEN << >>
  ELSE << SegmentNew(
            ToOutput(Crossing(img, x, y, row[seg_index + 1]), offset, scale),
            ToOutput(Crossing(img, x, y, row[seg_index + 2]), offset, scale)) >>
       \o RowSegments(img, x, y, offset, scale, row, seg_index + 2)

CellSegments(img, x, y, offset, scale) ==
  RowSegments(img, x, y, offset, scale, EDGE_LUT[LutIndex(img, x, y) + 1], 1)

RECURSIVE ExtractFrom(_, _, _, _)
\* the two for loops of from_sdf from cell number k on, row-major
ExtractFrom(img, offset, scale, k) ==
  IF img.w < 2 \/ img.h < 2 \/ k >= (img.w - 1) * (img.h - 1) THEN << >>
  ELSE CellSegments(img, k % (img.w - 1), k \div (img.w - 1), offset, scale)
       \o ExtractFrom(img, offset, scale, k + 1)

ExtractSegments(img, offset, scale) == ExtractFrom(img, offset, scale, 0)

\* ------------------------------------------- types.rs: BBox2, BBox3
\* f32::MAX and f32::MIN, as the largest magnitudes the model uses
F32Max == 2000000000
F32Min == -2000000000

BBox2Empty == [min |-> <<F32Max, F32Max>>, max |-> <<F32Min, F32Min>>]
BBox2IsEmpty(b) == b.min[1] > b.max[1] \/ b.min[2] > b.max[2]
BBox2IncludePoint(b, p) ==
  [min |-> <<Min2(b.min[1], p[1]), Min2(b.min[2], p[2])>>,
   max |-> <<Max2(b.max[1], p[1]), Max2(b.max[2], p[2])>>]
BBox2IncludeBBox(b, other) ==
  IF BBox2IsEmpty(other) THEN b
  ELSE BBox2IncludePoint(BBox2IncludePoint(b, other.min), other.max)

BBox3Empty ==
  [min |-> <<F32Max, F32Max, F32Max>>, max |-> <<F32Min, F32Min, F32Min>>]
BBox3IsEmpty(b) ==
  b.min[1] > b.max[1] \/ b.min[2] > b.max[2] \/ b.min[3] > b.max[3]
BBox3IncludePoint(b, p) ==
  [min |-> <<Min2(b.min[1], p[1]), Min2(b.min[2], p[2]), Min2(b.min[3], p[3])>>,
   max |-> <<Max2(b.max[1], p[1]), Max2(b.max[2], p[2]), Max2(b.max[3], p[3])>>]
BBox3IncludeBBox2(b, other, z) ==
  IF BBox2IsEmpty(other) THEN b
  ELSE BBox3IncludePoint(
         BBox3IncludePoint(b, <<other.min[1], other.min[2], z>>),
         <<other.max[1], other.max[2], z>>)

\* ------------------------------ slice.rs: PolyContour, PolySlice, stack
RECURSIVE BBoxOfVertices(_, _)
\* the for vec in &vertices loop of PolyContour::new
BBoxOfVertices(vertices, b) ==
  IF vertices = << >> THEN b
  ELSE BBoxOfVertices(Tail(vertices), BBox2IncludePoint(b, Head(vertices)))

\* the constructor without its check of the length
PolyContourNewAnyLength(vertices, winding) ==
  [ok |-> TRUE,
   contour |->
     [vertices |-> vertices,
      winding |-> IF winding = "Unknown" THEN DetectWinding(vertices)
                  ELSE winding,
      bbox |-> BBoxOfVertices(vertices, BBox2Empty)]]

\* PolyContour::new: [ok |-> FALSE] is Err(InvalidParameter)
PolyContourNew(vertices, winding) ==
  IF Len(vertices) < 3 THEN [ok |-> FALSE]
  ELSE [ok |-> TRUE,
        contour |->
          [vertices |-> vertices,
           winding |-> IF winding = "Unknown" THEN DetectWinding(vertices)
                       ELSE winding,
           bbox |-> BBoxOfVertices(vertices, BBox2Empty)]]

\* PolyContour::add_vertex
PolyContourAddVertex(c, vec) ==
  [c EXCEPT !.bbox = BBox2IncludePoint(@, vec),
            !.vertices = Append(@, vec)]

\* PolyContour::detect_winding_in_place
PolyContourDetectWindingInPlace(c) ==
  [c EXCEPT !.winding = DetectWinding(c.vertices)]

\* f32::EPSILON = 2^-23 counted in the unit of the coordinates close is
\* given; the specification of the data structures draws its coordinates
\* from the whole multiples of 2^-24, which f32 holds exactly
EPSILON == 2
\* (first - last).norm() > f32::EPSILON on such coordinates
NormAboveEpsilon(first, last) ==
  (first[1] - last[1]) * (first[1] - last[1])
  + (first[2] - last[2]) * (first[2] - last[2]) > EPSILON * EPSILON

\* the first vertex pushed whatever the last one is
PolyContourCloseAlways(c) ==
  IF c.vertices = << >> THEN c
  ELSE [c EXCEPT !.vertices = Append(@, c.vertices[1])]

\* PolyContour::close
PolyContourClose(c) ==
  IF c.vertices = << >> THEN c
  ELSE IF NormAboveEpsilon(c.vertices[1], c.vertices[Len(c.vertices)])
  THEN [c EXCEPT !.vertices = Append(@, c.vertices[1])]
  ELSE c

\* the contour pushed without its bbox included
PolySliceAddContourNoBBox(slice, contour) ==
  [slice EXCEPT !.contours = Append(@, contour)]

PolySliceNew(z_pos) == [contours |-> << >>, z_pos |-> z_pos, bbox |-> BBox2Empty]

PolySliceAddContour(slice, contour) ==
  [slice EXCEPT !.bbox = BBox2IncludeBBox(@, contour.bbox),
                !.contours = Append(@, contour)]

\* PolySlice::close
PolySliceClose(slice) ==
  [slice EXCEPT !.contours =
     [k \in 1..Len(slice.contours) |-> PolyContourClose(slice.contours[k])]]

PolySliceStackNew == [slices |-> << >>, bbox |-> BBox3Empty]

RECURSIVE PolySliceStackAddSlices(_, _)
PolySliceStackAddSlices(stack, slices) ==
  IF slices = << >> THEN stack
  ELSE PolySliceStackAddSlices(
         [slices |-> Append(stack.slices, Head(slices)),
          bbox |-> BBox3IncludeBBox2(stack.bbox, Head(slices).bbox,
                                     Head(slices).z_pos)],
         Tail(slices))

PolySliceStackFromSlices(slices) ==
  PolySliceStackAddSlices(PolySliceStackNew, slices)

\* -------------------------------------- slice.rs: the stitching loop
\* segments[idx] with the code's 0-based index
SegAt(segments, idx) == segments[idx + 1]

\* the assignment used = true left out
SetUsedNot(segments, idx) == segments

SetUsed(segments, idx) == [segments EXCEPT ![idx + 1].used = TRUE]

\* a seed search that finds nothing
FirstUnusedNone(segments, from) == NoIdx

RECURSIVE FirstUnused(_, _)
\* segments.iter().enumerate().skip(unused).find(|(_, seg)| !seg.used)
FirstUnused(segments, from) ==
  IF from >= Len(segments) THEN NoIdx
  ELSE IF ~SegAt(segments, from).used THEN from
  ELSE FirstUnused(segments, from + 1)

RECURSIVE SearchFrom(_, _, _)
\* while search_from > 0 { if segments[search_from - 1].max_y >= f_min ... }
SearchFrom(segments, search_from, f_min) ==
  IF search_from > 0 /\ SegAt(segments, search_from - 1).max_y >= f_min
  THEN SearchFrom(segments, search_from - 1, f_min)
  ELSE search_from

\* the two if sqr < best_sqr_.. updates for the candidate idx
\* a scan that never records a candidate
BetterNever(best, idx, sqrS, sqrE) == best

Better(best, idx, sqrS, sqrE) ==
  [start |-> IF WLess(sqrS, best.sqr_start) THEN idx ELSE best.start,
   sqr_start |-> IF WLess(sqrS, best.sqr_start) THEN sqrS ELSE best.sqr_start,
   end |-> IF WLess(sqrE, best.sqr_end) THEN idx ELSE best.end,
   sqr_end |-> IF WLess(sqrE, best.sqr_end) THEN sqrE ELSE best.sqr_end]

RECURSIVE ScanFrom(_, _, _, _, _, _)
\* for idx in search_from..segments.len(): the best head and tail matches
ScanFrom(segments, idx, f_max, head, tail, best) ==
  IF idx >= Len(segments) THEN best
  ELSE IF SegAt(segments, idx).used
       THEN ScanFrom(segments, idx + 1, f_max, head, tail, best)
  ELSE IF SegAt(segments, idx).min_y > f_max THEN best
  ELSE ScanFrom(segments, idx + 1, f_max, head, tail,
                Better(best, idx,
                       NormSquared(head, SegAt(segments, idx).end),
                       NormSquared(tail, SegAt(segments, idx).start)))

\* lines 382-396: the chain's own two ends, sqr apart, as first candidates
BestInit(curr_start_idx, curr_end_idx, sqr) ==
  IF curr_end_idx # curr_start_idx /\ WLess(sqr, SqrOne)
  THEN [start |-> curr_end_idx, end |-> curr_start_idx,
        sqr_start |-> sqr, sqr_end |-> sqr]
  ELSE [start |-> NoIdx, end |-> NoIdx, sqr_start |-> SqrOne, sqr_end |-> SqrOne]

\* lines 398-437 for the head segment cs and the tail segment ce
BestScan(segments, curr_start_idx, curr_end_idx, cs, ce) ==
  ScanFrom(segments,
           SearchFrom(segments, Min2(curr_start_idx, curr_end_idx),
                      Floor(Min2(cs.min_y, ce.min_y)) - One),
           Ceil(Max2(cs.max_y, ce.max_y)) + One,
           cs.start, ce.end,
           BestInit(curr_start_idx, curr_end_idx, NormSquared(cs.start, ce.end)))

\* best_start / best_end after the search of one loop iteration
BestMatches(segments, curr_start_idx, curr_end_idx) ==
  BestScan(segments, curr_start_idx, curr_end_idx,
           SegAt(segments, curr_start_idx), SegAt(segments, curr_end_idx))

\* The locals of the loop: [segments, segments_left, curr_start, curr_end,
\* unused, contour, slice].  Lines 368-375: the segment start_idx becomes
\* the seed of a new chain.
SeedWith(L, start_idx) ==
  [L EXCEPT
     !.curr_start = start_idx,
     !.curr_end = start_idx,
     !.unused = start_idx + 1,
     !.contour = Append(Append(@, SegAt(L.segments, start_idx).start),
                        SegAt(L.segments, start_idx).end),
     !.segments = SetUsed(@, start_idx),
     !.segments_left = @ - 1]

\* lines 439-442: no match at either end
DiscardArm(L, pre) ==
  [loc |-> [L EXCEPT !.contour = << >>, !.curr_start = NoIdx, !.curr_end = NoIdx],
   branch |-> "discard", marked |-> pre, emitted |-> FALSE]

\* a close arm that gives the chain up instead of adding its contour
CloseArmDropping(L, pre, best, closing, made) ==
  [loc |->
     [L EXCEPT
        !.segments = IF closing THEN SetUsed(@, best.end) ELSE @,
        !.segments_left = IF closing THEN @ - 1 ELSE @,
        !.contour = << >>,
        !.curr_start = NoIdx,
        !.curr_end = NoIdx],
   branch |-> "close",
   marked |-> pre \o (IF closing THEN <<best.end>> ELSE << >>),
   emitted |-> FALSE]

\* lines 447-463: the chain is closed; closing tells whether one segment
\* matched both ends, made is PolyContour::new of the chain
CloseArm(L, pre, best, closing, made) ==
  [loc |->
     [L EXCEPT
        !.segments = IF closing THEN SetUsed(@, best.end) ELSE @,
        !.segments_left = IF closing THEN @ - 1 ELSE @,
        !.slice = IF Len(L.contour) > 2 /\ made.ok
                  THEN PolySliceAddContour(@, made.contour) ELSE @,
        !.contour = << >>,
        !.curr_start = NoIdx,
        !.curr_end = NoIdx],
   branch |-> "close",
   marked |-> pre \o (IF closing THEN <<best.end>> ELSE << >>),
   emitted |-> Len(L.contour) > 2 /\ made.ok]

\* lines 465-470: extend the tail
ExtendTail(L, best) ==
  IF best.end = NoIdx THEN L
  ELSE [L EXCEPT
          !.contour = Append(@, SegAt(L.segments, best.end).end),
          !.segments = SetUsed(@, best.end),
          !.segments_left = @ - 1,
          !.curr_end = best.end]

\* lines 471-476: extend the head
ExtendHead(L, best) ==
  IF best.start = NoIdx THEN L
  ELSE [L EXCEPT
          !.contour = <<SegAt(L.segments, best.start).start>> \o @,
          !.segments = SetUsed(@, best.start),
          !.segments_left = @ - 1,
          !.curr_start = best.start]

ExtendArm(L, pre, best) ==
  [loc |-> ExtendHead(ExtendTail(L, best), best),
   branch |-> "extend",
   marked |-> pre \o (IF best.end # NoIdx THEN <<best.end>> ELSE << >>)
                  \o (IF best.start # NoIdx THEN <<best.start>> ELSE << >>),
   emitted |-> FALSE]

\* Lines 439-477: what one iteration does with the matches found.
\* branch names the arm taken; marked lists the segments whose used flag
\* the iteration set, in order; emitted tells whether a contour was added.
ResolveWith(L, pre, best) ==
  IF best.end = NoIdx /\ best.start = NoIdx THEN DiscardArm(L, pre)
  ELSE IF best.start = best.end \/ best.start = L.curr_end
          \/ best.end = L.curr_start
  THEN CloseArm(L, pre, best, best.start = best.end,
                PolyContourNew(L.contour, "Unknown"))
  ELSE ExtendArm(L, pre, best)

Resolve(L, pre) ==
  ResolveWith(L, pre, BestMatches(L.segments, L.curr_start, L.curr_end))

\* lines 356-376 and then the rest of the iteration; start_idx is the
\* answer of the seed search (used only when no chain is open)
LoopBodyWith(L, start_idx) ==
  IF L.curr_start # NoIdx THEN Resolve(L, << >>)
  ELSE IF start_idx = NoIdx
  THEN [loc |-> L, branch |-> "break", marked |-> << >>, emitted |-> FALSE]
  ELSE Resolve(SeedWith(L, start_idx), <<start_idx>>)

\* one iteration of while segments_left > 0
LoopBody(L) == LoopBodyWith(L, FirstUnused(L.segments, L.unused))

\* --------------------------------------------------- cli.rs: the text
\* A line of a layer file is a sequence of tokens.  A word token is a piece
\* of text ("$$", "LAYER", "/", ",", " ", ...); "int" is a number written
\* without a decimal point, "dec" a number written as i.fffff (5 digits).
W(s) == [k |-> "w", s |-> s, neg |-> FALSE, i |-> 0, f |-> 0]
NumInt(n) == [k |-> "int", s |-> "", neg |-> n < 0, i |-> Abs(n), f |-> 0]
NumDec(neg, i, f) == [k |-> "dec", s |-> "", neg |-> neg, i |-> i, f |-> f]

Cmd(name) == <<W("$$"), W(name)>>
Cmd2(name, suffix) == <<W("$$"), W(name), W(suffix)>>
Slash == W("/")
Comma == W(",")
Space == W(" ")

SubSeqFrom(q, i) == SubSeq(q, i, Len(q))

RECURSIVE CommentAt(_, _)
\* line.find("//"): the 1-based place of the first "//", 0 when there is none
CommentAt(line, i) ==
  IF i > Len(line) THEN 0
  ELSE IF line[i] = W("//") THEN i
  ELSE IF i < Len(line) /\ line[i] = Slash /\ line[i + 1] = Slash THEN i
  ELSE CommentAt(line, i + 1)

CutAt(line, idx) == IF idx = 0 THEN line ELSE SubSeq(line, 1, idx - 1)
StripComment(line) == CutAt(line, CommentAt(line, 1))

RECURSIVE TrimLeft(_)
TrimLeft(q) == IF q # << >> /\ Head(q) = Space THEN TrimLeft(Tail(q)) ELSE q
RECURSIVE TrimRight(_)
TrimRight(q) ==
  IF q # << >> /\ q[Len(q)] = Space THEN TrimRight(SubSeq(q, 1, Len(q) - 1))
  ELSE q
\* str::trim
Trim(q) == TrimRight(TrimLeft(q))

\* str::starts_with
StartsWith(line, pat) ==
  Len(line) >= Len(pat) /\ SubSeq(line, 1, Len(pat)) = pat

RECURSIVE FindFrom(_, _, _)
\* str::find: the 1-based place of the first occurrence of pat, 0 for None
FindFrom(line, pat, i) ==
  IF i + Len(pat) - 1 > Len(line) THEN 0
  ELSE IF SubSeq(line, i, i + Len(pat) - 1) = pat THEN i
  ELSE FindFrom(line, pat, i + 1)
Find(line, pat) == FindFrom(line, pat, 1)

\* what follows the pattern found at idx
Remainder(line, pat, idx) == SubSeqFrom(line, idx + Len(pat))
\* str::strip_prefix, for a line that starts with pat
StripPrefix(line, pat) == SubSeqFrom(line, Len(pat) + 1)

IsSeparator(t) == t = W("$$") \/ t = Slash \/ t = Comma

RECURSIVE ParamEnd(_, _)
\* the for (idx, ch) loop of extract_parameter: the first separator of data
ParamEnd(data, i) ==
  IF i > Len(data) THEN Len(data) + 1
  ELSE IF IsSeparator(data[i]) THEN i
  ELSE ParamEnd(data, i + 1)

ParamCut(data, end) ==
  [ok |-> TRUE, param |-> Trim(SubSeq(data, 1, end - 1)),
   rest |-> SubSeqFrom(data, end)]

\* extract_parameter: [ok |-> FALSE] is None; rest is what *line becomes
extract_parameter(line) ==
  IF line # << >> /\ (Head(line) = Slash \/ Head(line) = Comma)
  THEN ParamCut(Tail(line), ParamEnd(Tail(line), 1))
  ELSE [ok |-> FALSE, param |-> << >>, rest |-> line]

\* the value a number token stands for, in units of 1e-6
TokenValue(t) == (IF t.neg THEN -1 ELSE 1) * (t.i * One + t.f * 10)

\* str::parse::<f32>
ParseF32(param) ==
  IF Len(param) = 1 /\ param[1].k \in {"int", "dec"}
  THEN [ok |-> TRUE, v |-> TokenValue(param[1])]
  ELSE [ok |-> FALSE, v |-> 0]

\* str::parse::<u32>
ParseU32(param) ==
  IF Len(param) = 1 /\ param[1].k = "int" /\ ~param[1].neg
  THEN [ok |-> TRUE, v |-> param[1].i]
  ELSE [ok |-> FALSE, v |-> 0]

\* ------------------------------- cli.rs: write_slices_to_cli_file
RECURSIVE FracDigits(_, _, _, _)
\* the next k decimal digits of r / units, r < units: [q, r] with the
\* digits in q and the remainder in r
FracDigits(r, units, k, q) ==
  IF k = 0 THEN [q |-> q, r |-> r]
  ELSE FracDigits((r * 10) % units, units, k - 1, q * 10 + ((r * 10) \div units))

FormatRounded(neg, ip, d, units) ==
  IF d.q + (IF 2 * d.r >= units THEN 1 ELSE 0) = 100000
  THEN NumDec(neg, ip + 1, 0)
  ELSE NumDec(neg, ip, d.q + (IF 2 * d.r >= units THEN 1 ELSE 0))

\* format!("{:.5}", x / units) and format!("{:08.5}", x / units), units > 0:
\* the quotient rounded to 5 decimals
FormatDec(x, units) ==
  FormatRounded(x < 0, Abs(x) \div units,
                FracDigits(Abs(x) % units, units, 5, 0), units)

\* lines 118-122
CodeOfWinding(winding) ==
  CASE winding = "Clockwise" -> 0
    [] winding = "CounterClockwise" -> 1
    [] winding = "Unknown" -> 2

\* the passes for Clockwise and CounterClockwise exchanged
PassWindingClockwiseFirst(pass) ==
  CASE pass = 0 -> "Clockwise"
    [] pass = 1 -> "CounterClockwise"
    [] pass = 2 -> "Unknown"

\* lines 106-116: the winding that pass emits
PassWinding(pass) ==
  CASE pass = 0 -> "CounterClockwise"
    [] pass = 1 -> "Clockwise"
    [] pass = 2 -> "Unknown"

RECURSIVE VertexText(_, _, _)
\* lines 125-127: "x,y," for each vertex from the i-th on
VertexText(vertices, units, i) ==
  IF i > Len(vertices) THEN << >>
  ELSE <<FormatDec(vertices[i][1], units), Comma,
         FormatDec(vertices[i][2], units), Comma>>
       \o VertexText(vertices, units, i + 1)

\* lines 128-130: if line.ends_with(',') { line.pop(); }
PopComma(line) ==
  IF line # << >> /\ line[Len(line)] = Comma THEN SubSeq(line, 1, Len(line) - 1)
  ELSE line

\* lines 124-131: the $$POLYLINE record of one contour
\* the record with the vertex count left out
PolylineTextNoCount(contour, units) ==
  PopComma(Cmd("POLYLINE")
           \o <<Slash, NumInt(1), Comma, NumInt(CodeOfWinding(contour.winding)),
                Comma>>
           \o VertexText(contour.vertices, units, 1))

PolylineText(contour, units) ==
  PopComma(Cmd("POLYLINE")
           \o <<Slash, NumInt(1), Comma, NumInt(CodeOfWinding(contour.winding)),
                Comma, NumInt(Len(contour.vertices)), Comma>>
           \o VertexText(contour.vertices, units, 1))

RECURSIVE PassText(_, _, _, _)
\* lines 98-132: one pass over the contours of a slice, from contour_idx on
PassText(slice, units, pass, contour_idx) ==
  IF contour_idx > Len(slice.contours) THEN << >>
  ELSE (IF slice.contours[contour_idx].winding = PassWinding(pass)
        THEN <<PolylineText(slice.contours[contour_idx], units)>>
        ELSE << >>)
       \o PassText(slice, units, pass, contour_idx + 1)

\* lines 95-133: the $$LAYER record of a slice and its three passes
SliceText(slice, units) ==
  <<Cmd("LAYER") \o <<Slash, FormatDec(slice.z_pos, units)>>>>
  \o PassText(slice, units, 0, 1)
  \o PassText(slice, units, 1, 1)
  \o PassText(slice, units, 2, 1)

RECURSIVE GeometryText(_, _, _)
\* lines 91-134: the slices from slice_idx on
GeometryText(stack, units, slice_idx) ==
  IF slice_idx > Len(stack.slices) THEN << >>
  ELSE SliceText(stack.slices[slice_idx], units)
       \o GeometryText(stack, units, slice_idx + 1)

\* lines 67-75 and 82: the $$DIMENSION line
DimensionText(bbox, last_slice) ==
  Cmd("DIMENSION")
  \o <<Slash, FormatDec(bbox.min[1], One), Comma, FormatDec(bbox.min[2], One),
       Comma, FormatDec(0, One), Comma, FormatDec(bbox.max[1], One),
       Comma, FormatDec(bbox.max[2], One), Comma,
       FormatDec(last_slice.z_pos, One)>>

\* the file with the synthetic first layer counted in the header but not
\* written
FileTextWithoutFirstLayer(stack, format, date, units) ==
  << Cmd2("HEADER", "START"),
     Cmd("ASCII"),
     Cmd("UNITS") \o <<Slash, FormatDec(units, One)>>,
     Cmd("VERSION") \o <<Slash, NumInt(200)>>,
     Cmd("LABEL") \o <<Slash, NumInt(1), Comma, W("default")>>,
     Cmd("DATE") \o <<Slash, W(date)>>,
     DimensionText(stack.bbox, stack.slices[Len(stack.slices)]),
     Cmd2("LAYER", "S")
       \o <<Slash, NumInt(Len(stack.slices)
                          + (IF format = "UseEmptyFirstLayer" THEN 1 ELSE 0))>>,
     Cmd2("HEADER", "END"),
     Cmd2("GEOMETRY", "START") >>
  \o GeometryText(stack, units, 1)
  \o <<Cmd2("GEOMETRY", "END")>>

\* lines 55-136: everything written to the file
FileText(stack, format, date, units) ==
  << Cmd2("HEADER", "START"),
     Cmd("ASCII"),
     Cmd("UNITS") \o <<Slash, FormatDec(units, One)>>,
     Cmd("VERSION") \o <<Slash, NumInt(200)>>,
     Cmd("LABEL") \o <<Slash, NumInt(1), Comma, W("default")>>,
     Cmd("DATE") \o <<Slash, W(date)>>,
     DimensionText(stack.bbox, stack.slices[Len(stack.slices)]),
     Cmd2("LAYER", "S")
       \o <<Slash, NumInt(Len(stack.slices)
                          + (IF format = "UseEmptyFirstLayer" THEN 1 ELSE 0))>>,
     Cmd2("HEADER", "END"),
     Cmd2("GEOMETRY", "START") >>
  \o (IF format = "UseEmptyFirstLayer"
      THEN <<Cmd("LAYER") \o <<Slash, NumDec(FALSE, 0, 0)>>>> ELSE << >>)
  \o GeometryText(stack, units, 1)
  \o <<Cmd2("GEOMETRY", "END")>>

\* Option<f32>::None of units_mm
NoUnits == -1
\* units_mm.unwrap_or(1.0)
UnitsOr(units_mm) == IF units_mm = NoUnits THEN One ELSE units_mm

\* lines 38-42: the first precondition
NoValidSlices(stack) == Len(stack.slices) < 1 \/ BBox3IsEmpty(stack.bbox)

\* the units check placed after File::create
WriteUnitsLate(stack, format, date, units) ==
  IF units <= 0
  THEN [ok |-> FALSE, error |-> "Units must be positive", created |-> TRUE,
        file |-> << >>]
  ELSE [ok |-> TRUE, error |-> "", created |-> TRUE,
        file |-> FileText(stack, format, date, units)]

\* write_slices_to_cli_file: created tells whether File::create was reached
\* (taken to succeed), file is what the file then holds
WriteUnits(stack, format, date, units) ==
  IF units <= 0
  THEN [ok |-> FALSE, error |-> "Units must be positive", created |-> FALSE,
        file |-> << >>]
  ELSE [ok |-> TRUE, error |-> "", created |-> TRUE,
        file |-> FileText(stack, format, date, units)]

WriteSlicesToCliFile(stack, format, date, units_mm) ==
  IF NoValidSlices(stack)
  THEN [ok |-> FALSE, error |-> "No valid slices detected (empty)",
        created |-> FALSE, file |-> << >>]
  ELSE WriteUnits(stack, format, date, UnitsOr(units_mm))

\* ----------------------------------- cli.rs: slices_from_cli_file
\* Option<u32>::None of label_id
NoLabel == -1

\* The reader's locals and its CliResult, lines 144-163.  current_slice is
\* the Option as a sequence of length 0 or 1.  status is "reading" inside
\* the line loop, "done" after the break of line 327, "ok" after Ok(result)
\* and "err" after an Err return, whose message error names.
ReaderInit ==
  [header_started |-> FALSE, header_ended |-> FALSE,
   geometry_started |-> FALSE, label_id |-> NoLabel,
   current_slice |-> << >>, slices |-> << >>, prev_z |-> F32Min,
   result |-> [slices |-> PolySliceStackNew, bbox_file |-> BBox3Empty,
               is_binary |-> FALSE, units_header |-> 0, align_32bit |-> FALSE,
               version |-> 0, header_date |-> << >>, layer_count |-> 0,
               warnings |-> << >>],
   status |-> "reading", error |-> ""]

\* return Err(InvalidParameter(msg))
Fail(P, msg) == [P EXCEPT !.status = "err", !.error = msg]

\* the warning carrying the loop's 0-based index
WarnZeroBased(P, line_no, what) ==
  [P EXCEPT !.result.warnings = Append(@, [line |-> line_no, what |-> what])]

\* result.warnings.push_str("Line: {line_no + 1} ...")
Warn(P, line_no, what) ==
  [P EXCEPT !.result.warnings = Append(@, [line |-> line_no + 1, what |-> what])]

\* lines 205-224, e = extract_parameter, r = param.parse::<f32>()
HeaderUnitsValue(P, r) ==
  IF ~r.ok \/ r.v <= 0 THEN Fail(P, "Invalid parameter for $$UNITS")
  ELSE [P EXCEPT !.result.units_header = r.v]
HeaderUnits(P, e) ==
  IF ~e.ok THEN Fail(P, "Missing parameter after $$UNITS")
  ELSE HeaderUnitsValue(P, ParseF32(e.param))

\* lines 228-252
HeaderLabelId(P, id, text) ==
  IF ~id.ok THEN Fail(P, "Invalid parameter for $$LABEL")
  ELSE IF P.label_id # NoLabel THEN Fail(P, "Multiple labels not supported")
  ELSE IF ~text.ok THEN Fail(P, "Missing parameter after $$LABEL (text)")
  ELSE [P EXCEPT !.label_id = id.v]
HeaderLabel(P, e) ==
  IF ~e.ok THEN Fail(P, "Missing parameter after $$LABEL")
  ELSE HeaderLabelId(P, ParseU32(e.param), extract_parameter(e.rest))

\* lines 253-259
HeaderDate(P, e) ==
  IF ~e.ok THEN Fail(P, "Missing parameter after $$DATE")
  ELSE [P EXCEPT !.result.header_date = e.param]

\* read_param of lines 261-274, applied to what extract_parameter gave
ReadParamValue(acc, e, r) ==
  IF ~e.ok \/ ~r.ok THEN [ok |-> FALSE, vals |-> acc.vals, rest |-> e.rest]
  ELSE [ok |-> TRUE, vals |-> Append(acc.vals, r.v), rest |-> e.rest]
ReadParam(acc, e) == ReadParamValue(acc, e, ParseF32(e.param))

RECURSIVE ReadParams(_, _)
\* n successive read_param calls, stopping at the first that fails
ReadParams(acc, n) ==
  IF n = 0 \/ ~acc.ok THEN acc
  ELSE ReadParams(ReadParam(acc, extract_parameter(acc.rest)), n - 1)

\* lines 260-288
HeaderDimensionOf(P, r) ==
  IF ~r.ok THEN Fail(P, "Missing or invalid parameter for $$DIMENSION")
  ELSE [P EXCEPT !.result.bbox_file =
          [min |-> <<r.vals[1], r.vals[2], r.vals[3]>>,
           max |-> <<r.vals[4], r.vals[5], r.vals[6]>>]]
HeaderDimension(P, data) ==
  HeaderDimensionOf(P, ReadParams([ok |-> TRUE, vals |-> << >>, rest |-> data], 6))

\* lines 289-302
HeaderLayersValue(P, r) ==
  IF ~r.ok THEN Fail(P, "Invalid parameter for $$LAYERS")
  ELSE [P EXCEPT !.result.layer_count = r.v]
HeaderLayers(P, e) ==
  IF ~e.ok THEN Fail(P, "Missing parameter after $$LAYERS")
  ELSE HeaderLayersValue(P, ParseU32(e.param))

\* lines 187-305: one line of the header section
HeaderLine(P, line) ==
  IF StartsWith(line, Cmd2("HEADER", "END")) THEN [P EXCEPT !.header_ended = TRUE]
  ELSE IF StartsWith(line, Cmd("BINARY")) THEN [P EXCEPT !.result.is_binary = TRUE]
  ELSE IF StartsWith(line, Cmd("ASCII")) THEN [P EXCEPT !.result.is_binary = FALSE]
  ELSE IF StartsWith(line, Cmd("ALIGN")) THEN [P EXCEPT !.result.align_32bit = TRUE]
  ELSE IF StartsWith(line, Cmd("UNITS"))
       THEN HeaderUnits(P, extract_parameter(StripPrefix(line, Cmd("UNITS"))))
  ELSE IF StartsWith(line, Cmd("VERSION")) THEN P
  ELSE IF StartsWith(line, Cmd("LABEL"))
       THEN HeaderLabel(P, extract_parameter(StripPrefix(line, Cmd("LABEL"))))
  ELSE IF StartsWith(line, Cmd("DATE"))
       THEN HeaderDate(P, extract_parameter(StripPrefix(line, Cmd("DATE"))))
  ELSE IF StartsWith(line, Cmd("DIMENSION"))
       THEN HeaderDimension(P, StripPrefix(line, Cmd("DIMENSION")))
  ELSE IF StartsWith(line, Cmd2("LAYER", "S"))
       THEN HeaderLayers(P, extract_parameter(StripPrefix(line, Cmd2("LAYER", "S"))))
  ELSE P

\* a slice opened for z_pos = 0 as well
LayerAtNonNegative(P, z_pos) ==
  IF P.prev_z # F32Min /\ z_pos < P.prev_z
  THEN Fail(P, "Z position in current layer is smaller than in previous")
  ELSE IF z_pos >= 0
  THEN [P EXCEPT !.prev_z = z_pos,
                 !.slices = @ \o P.current_slice,
                 !.current_slice = <<PolySliceNew(z_pos)>>]
  ELSE [P EXCEPT !.prev_z = z_pos]

\* lines 342-357: the layer at z_pos, already scaled by units_header
LayerAt(P, z_pos) ==
  IF P.prev_z # F32Min /\ z_pos < P.prev_z
  THEN Fail(P, "Z position in current layer is smaller than in previous")
  ELSE IF z_pos > 0
  THEN [P EXCEPT !.prev_z = z_pos,
                 !.slices = @ \o P.current_slice,
                 !.current_slice = <<PolySliceNew(z_pos)>>]
  ELSE [P EXCEPT !.prev_z = z_pos]

\* lines 336-342
LayerValue(P, r) ==
  IF ~r.ok THEN Fail(P, "Invalid parameter for $$LAYER")
  ELSE LayerAt(P, MulFix(r.v, P.result.units_header))

\* lines 330-358: a $$LAYER record, e = extract_parameter(&mut data)
LayerRecord(P, e) ==
  IF ~e.ok THEN Fail(P, "Missing parameter after $$LAYER")
  ELSE LayerValue(P, ParseF32(e.param))

\* slice.add_contour(contour); current_slice = Some(slice)
AddToCurrent(P, contour) ==
  [P EXCEPT !.current_slice = <<PolySliceAddContour(@[1], contour)>>]

\* lines 465-494: made = PolyContour::new(vertices, winding)
PolylineAdd(P, line_no, winding, made) ==
  IF ~made.ok THEN Warn(P, line_no, "invalid vertices")
  ELSE IF made.contour.winding = "Unknown" THEN Warn(P, line_no, "area 0")
  ELSE IF made.contour.winding # winding
  THEN AddToCurrent(Warn(P, line_no, "actual winding"), made.contour)
  ELSE AddToCurrent(P, made.contour)

\* lines 455-494: the vertices are read
PolylineVertices(P, line_no, winding, vertices) ==
  IF Len(vertices) < 3 THEN Warn(P, line_no, "degenerate")
  ELSE PolylineAdd(P, line_no, winding, PolyContourNew(vertices, winding))

\* Vector2::new(x * result.units_header, y * result.units_header)
ScaledVertex(vals, i, units) ==
  <<MulFix(vals[2 * i - 1], units), MulFix(vals[2 * i], units)>>

\* lines 422-453: r holds the 2 * count coordinates read, or the failure
PolylineCoords(P, line_no, winding, count, r) ==
  IF ~r.ok THEN Fail(P, "Missing or invalid vertices in $$POLYLINE")
  ELSE PolylineVertices(P, line_no, winding,
         [i \in 1..count |-> ScaledVertex(r.vals, i, P.result.units_header)])

\* lines 410-420: e = extract_parameter, n = count.parse::<u32>()
PolylineCountValue(P, line_no, winding, e, n) ==
  IF ~n.ok THEN Fail(P, "Invalid parameter for $$POLYLINE polygon count")
  ELSE PolylineCoords(P, line_no, winding, n.v,
         ReadParams([ok |-> TRUE, vals |-> << >>, rest |-> e.rest], 2 * n.v))
PolylineCount(P, line_no, winding, e) ==
  IF ~e.ok THEN Fail(P, "Missing parameter polygon count after $$POLYLINE")
  ELSE PolylineCountValue(P, line_no, winding, e, ParseU32(e.param))

\* lines 398-408
WindingOfCode(code) ==
  CASE code = 0 -> "Clockwise"
    [] code = 1 -> "CounterClockwise"
    [] code = 2 -> "Unknown"
    [] OTHER -> "invalid"

\* lines 387-408: e = extract_parameter, w = winding_val.parse::<u32>()
PolylineWindingValue(P, line_no, e, w) ==
  IF ~w.ok \/ WindingOfCode(w.v) = "invalid"
  THEN Fail(P, "Invalid parameter for $$POLYLINE direction")
  ELSE PolylineCount(P, line_no, WindingOfCode(w.v), extract_parameter(e.rest))
PolylineWinding(P, line_no, e) ==
  IF ~e.ok THEN Fail(P, "Missing parameter after $$POLYLINE")
  ELSE PolylineWindingValue(P, line_no, e, ParseU32(e.param))

\* lines 371-385: e = extract_parameter, id = id.parse::<u32>()
PolylineLabel(P, line_no, e, id) ==
  IF ~id.ok THEN Fail(P, "Invalid parameter for $$POLYLINE")
  ELSE IF P.label_id # NoLabel /\ P.label_id # id.v
  THEN Fail(P, "Multiple labels not supported")
  ELSE PolylineWinding([P EXCEPT !.label_id = id.v], line_no,
                       extract_parameter(e.rest))

\* lines 366-370
PolylineId(P, line_no, e) ==
  IF ~e.ok THEN Fail(P, "Missing parameter after $$POLYLINE")
  ELSE PolylineLabel(P, line_no, e, ParseU32(e.param))

\* lines 360-495: a $$POLYLINE record; data is what follows the command
PolylineRecord(P, line_no, data) ==
  IF P.current_slice = << >>
  THEN Fail(P, "There should not be contours at z position 0")
  ELSE PolylineId(P, line_no, extract_parameter(data))

\* lines 325-504: one line of the geometry section
GeometryLine(P, line_no, line) ==
  IF StartsWith(line, Cmd2("GEOMETRY", "END")) THEN [P EXCEPT !.status = "done"]
  ELSE IF StartsWith(line, Cmd("LAYER"))
       THEN LayerRecord(P, extract_parameter(StripPrefix(line, Cmd("LAYER"))))
  ELSE IF StartsWith(line, Cmd("POLYLINE"))
       THEN PolylineRecord(P, line_no, StripPrefix(line, Cmd("POLYLINE")))
  ELSE IF StartsWith(line, <<W("$$")>>) THEN Warn(P, line_no, "unsupported command")
  ELSE P

\* lines 307-504: a line read after the header section
AfterHeader(P, line_no, line, idx) ==
  IF P.result.is_binary THEN Fail(P, "Binary CLI Files are not yet supported")
  ELSE IF P.header_ended /\ ~P.geometry_started
  THEN IF idx = 0 THEN P
       ELSE IF Trim(Remainder(line, Cmd2("GEOMETRY", "START"), idx)) = << >>
       THEN [P EXCEPT !.geometry_started = TRUE]
       ELSE GeometryLine([P EXCEPT !.geometry_started = TRUE], line_no, line)
  ELSE IF P.geometry_started THEN GeometryLine(P, line_no, line)
  ELSE P

\* lines 175-185: a line read before $$HEADERSTART was seen
BeforeHeader(P, line, idx) ==
  IF idx = 0 THEN P
  ELSE IF Trim(Remainder(line, Cmd2("HEADER", "START"), idx)) = << >>
  THEN [P EXCEPT !.header_started = TRUE]
  ELSE HeaderLine([P EXCEPT !.header_started = TRUE], line)

\* lines 171-504: the body of the line loop for a trimmed line
ParseTrimmed(P, line_no, line) ==
  IF line = << >> THEN P
  ELSE IF ~P.header_started
  THEN BeforeHeader(P, line, Find(line, Cmd2("HEADER", "START")))
  ELSE IF ~P.header_ended THEN HeaderLine(P, line)
  ELSE AfterHeader(P, line_no, line, Find(line, Cmd2("GEOMETRY", "START")))

\* lines 165-504: the body of the line loop for the physical line raw,
\* the line_no-th of the file counted from 0
ParseLine(P, line_no, raw) == ParseTrimmed(P, line_no, Trim(StripComment(raw)))

\* the slice still open at the end of the file left out
ReaderFinishNoFlush(P) ==
  [P EXCEPT !.current_slice = << >>,
            !.result.slices = PolySliceStackAddSlices(@, P.slices),
            !.status = "ok"]

\* lines 507-512: the end of the file or the break was reached
ReaderFinish(P) ==
  [P EXCEPT !.slices = @ \o P.current_slice,
            !.current_slice = << >>,
            !.result.slices =
               PolySliceStackAddSlices(@, P.slices \o P.current_slice),
            !.status = "ok"]

RECURSIVE ParseLines(_, _, _)
\* the line loop over the lines of file from the line_no-th on
ParseLines(P, file, line_no) ==
  IF P.status # "reading" \/ line_no >= Len(file) THEN P
  ELSE ParseLines(ParseLine(P, line_no, file[line_no + 1]), file, line_no + 1)

ReaderReturn(P) == IF P.status = "err" THEN P ELSE ReaderFinish(P)

\* slices_from_cli_file on a file that exists
SlicesFromCliFile(file) == ReaderReturn(ParseLines(ReaderInit, file, 0))

\* ------------------------------------------------------------- state
VARIABLES
  \* from_sdf: its arguments, its position and the locals of its loop
  img, offset, scale, pc,
  segments, segments_left, curr_start, curr_end, unused, contour, slice,
  \* history of from_sdf: how often each segment's used flag was set, and how
  \* many consumed segments sit in the open chain, in contours added to the
  \* slice, and in chains given up
  acct,
  \* detect_winding: the vertex list it was first applied to reversed or
  \* not, the list as rotated since, and the winding of either
  wnd,
  \* a stack under construction and written: the slices built so far, the
  \* arguments of write_slices_to_cli_file, what it returned and left on
  \* disk, and the position in build / write / read back
  built, units_mm, format, written, wpc,
  \* slices_from_cli_file: its locals and result (rd), the number of
  \* physical lines read, the last one read, and the history of the file
  \* read so far
  rd, line_no, line, hist,
  \* a contour, a slice, a vector of slices and a stack in the hands of a
  \* caller of their methods, with the last call and, when that was
  \* PolyContour::new, its arguments and whether it returned Err
  dm,
  \* Voxels::vectorize: its arguments, its position and its locals
  vz,
  \* the FFI lock: its ReentrantState and, for each thread, where the thread
  \* is and how many guards it holds
  ffi

sdfVars == <<img, offset, scale, pc, segments, segments_left, curr_start,
             curr_end, unused, contour, slice, acct>>
wndVars == <<wnd>>
writeVars == <<built, units_mm, format, written, wpc>>
readVars == <<rd, line_no, line, hist>>
dataVars == <<dm>>
callVars == <<vz, ffi>>
vars == <<sdfVars, wndVars, writeVars, readVars, dataVars, callVars>>

\* the parts of the state a specification does not use stay as they are here
SdfIdle ==
  /\ img = [w |-> 0, h |-> 0, px |-> << >>]
  /\ offset = <<0, 0>>
  /\ scale = One
  /\ pc = "idle"
  /\ segments = << >>
  /\ segments_left = 0
  /\ curr_start = NoIdx
  /\ curr_end = NoIdx
  /\ unused = 0
  /\ contour = << >>
  /\ slice = PolySliceNew(0)
  /\ acct = [marks |-> << >>, chain |-> 0, final |-> 0, dropped |-> 0]
WndIdle == wnd = [first |-> << >>, cur |-> << >>, reversed |-> FALSE,
                  winding0 |-> "Unknown", winding |-> "Unknown"]
NoWrite == [ok |-> FALSE, error |-> "", created |-> FALSE, file |-> << >>]
WriteIdle ==
  /\ built = << >>
  /\ units_mm = NoUnits
  /\ format = "FirstLayerWithContent"
  /\ written = NoWrite
  /\ wpc = "idle"
NoZ == F32Min
HistInit == [lastZ |-> NoZ, decreased |-> FALSE, binary |-> FALSE,
             positive |-> FALSE, openZ |-> NoZ, zs |-> << >>, layers |-> 0,
             firstLabel |-> NoLabel, otherLabel |-> FALSE]
ReadIdle ==
  /\ rd = ReaderInit
  /\ line_no = 0
  /\ line = << >>
  /\ hist = HistInit
\* nothing constructed and nothing called
NoData ==
  [contour |-> << >>, slice |-> << >>, slices |-> << >>,
   stack |-> PolySliceStackNew, ops |-> 0, last |-> "none", err |-> FALSE,
   arg |-> << >>, declared |-> "Unknown"]
DataIdle == dm = NoData
\* vectorize not called
NoVectorize ==
  [pc |-> "idle", layer_height_mm |-> 0, voxel_size |-> One,
   size |-> <<0, 0, 0>>, layer_height |-> 0, z_step |-> 0, z |-> 0,
   layer_z |-> 0, slices |-> << >>, result |-> PolySliceStackNew,
   error |-> "", layers |-> << >>]
VecIdle == vz = NoVectorize
\* Option<ThreadId>::None of owner
NoOwner == 0
\* the lock not yet used by any thread
NoFfi == [owner |-> NoOwner, depth |-> 0, at |-> << >>, held |-> << >>]
FfiIdle == ffi = NoFfi
CallIdle == VecIdle /\ FfiIdle

\* --------------------------------------------------- from_sdf: inputs
PixelValues == {-1, 1}
RasterSizes ==
  {wh \in (2..MaxPixels) \X (2..MaxPixels) : wh[1] * wh[2] <= MaxPixels}
RasterOf(w, h, px) == [w |-> w, h |-> h, px |-> px]
BoundedRasters ==
  UNION { { RasterOf(wh[1], wh[2], px) :
              px \in [(0..(wh[1] - 1)) \X (0..(wh[2] - 1)) -> PixelValues] } :
          wh \in RasterSizes }
\* the 5x5 raster with a negative 3x3 interior block inside a positive border
RingRaster(inside, border) ==
  RasterOf(5, 5, [p \in (0..4) \X (0..4) |->
                    IF p[1] \in 1..3 /\ p[2] \in 1..3 THEN inside ELSE border])
RingRasters == { RingRaster(-i, b) : i \in {1, 3}, b \in {1, 3} }
\* the 5x5 rasters with a positive border around any 3x3 interior
InteriorRasters ==
  { RasterOf(5, 5, [p \in (0..4) \X (0..4) |->
                      IF p[1] \in 1..3 /\ p[2] \in 1..3 THEN inner[p] ELSE 1]) :
      inner \in [(1..3) \X (1..3) -> PixelValues] }
Rasters == BoundedRasters \cup RingRasters \cup InteriorRasters
Offsets == { <<0, 0>>, <<One \div 2, -(One \div 4)>> }
Scales == { One, 2 * One }

Locals ==
  [segments |-> segments, segments_left |-> segments_left,
   curr_start |-> curr_start, curr_end |-> curr_end, unused |-> unused,
   contour |-> contour, slice |-> slice]

SdfInit ==
  /\ img \in Rasters
  /\ offset \in Offsets
  /\ scale \in Scales
  /\ pc = "extract"
  /\ segments = << >>
  /\ segments_left = 0
  /\ curr_start = NoIdx
  /\ curr_end = NoIdx
  /\ unused = 0
  /\ contour = << >>
  /\ slice = PolySliceNew(0)
  /\ acct = [marks |-> << >>, chain |-> 0, final |-> 0, dropped |-> 0]
  /\ WndIdle /\ WriteIdle /\ ReadIdle /\ DataIdle /\ CallIdle

\* lines 276-353: the early return, the extraction, the locals of the loop
Extract ==
  /\ pc = "extract"
  /\ segments' = ExtractSegments(img, offset, scale)
  /\ segments_left' = Len(segments')
  /\ acct' = [acct EXCEPT !.marks = [i \in 1..Len(segments') |-> 0]]
  /\ pc' = IF img.w < 2 \/ img.h < 2 THEN "done" ELSE "stitch"
  /\ UNCHANGED <<img, offset, scale, curr_start, curr_end, unused, contour,
                 slice, wndVars, writeVars, readVars, dataVars, callVars>>

RECURSIVE Mark(_, _)
Mark(marks, marked) ==
  IF marked = << >> THEN marks
  ELSE Mark([marks EXCEPT ![Head(marked) + 1] = @ + 1], Tail(marked))

\* the iteration r, the n-th consumed segment of its chain being its last
IterateTo(r, n) ==
  /\ segments' = r.loc.segments
  /\ segments_left' = r.loc.segments_left
  /\ curr_start' = r.loc.curr_start
  /\ curr_end' = r.loc.curr_end
  /\ unused' = r.loc.unused
  /\ contour' = r.loc.contour
  /\ slice' = r.loc.slice
  /\ acct' = [marks |-> Mark(acct.marks, r.marked),
              chain |-> IF r.branch = "extend" THEN n ELSE 0,
              final |-> acct.final + (IF r.emitted THEN n ELSE 0),
              dropped |-> acct.dropped
                          + (IF r.branch = "extend" \/ r.emitted THEN 0 ELSE n)]

IterateArm(r, branch) ==
  /\ r.branch = branch
  /\ IterateTo(r, acct.chain + Len(r.marked))

\* one iteration of the loop that takes the arm named branch
Iterate(branch) ==
  /\ pc = "stitch"
  /\ segments_left > 0
  /\ IterateArm(LoopBody(Locals), branch)
  /\ UNCHANGED <<img, offset, scale, pc, wndVars, writeVars, readVars, dataVars, callVars>>

StitchDiscard == Iterate("discard")
StitchClose == Iterate("close")
StitchExtend == Iterate("extend")

\* the loop is left: segments_left = 0, or the break of line 365
LoopLeft ==
  IF segments_left > 0 THEN LoopBody(Locals).branch = "break" ELSE TRUE

\* the loop ends and from_sdf returns slice; a chain still open is given up
Return ==
  /\ pc = "stitch"
  /\ LoopLeft
  /\ pc' = "done"
  /\ acct' = [acct EXCEPT !.chain = 0, !.dropped = @ + acct.chain]
  /\ UNCHANGED <<img, offset, scale, segments, segments_left, curr_start,
                 curr_end, unused, contour, slice, wndVars, writeVars, readVars, dataVars, callVars>>

SdfNext == Extract \/ StitchDiscard \/ StitchClose \/ StitchExtend \/ Return

SpecSdf == SdfInit /\ [][SdfNext]_vars

\* from_sdf is one sequential call: while it has not returned it keeps
\* taking steps.  This is WF_vars(SdfNext) written without ENABLED: each
\* pc other than "done" has a step of SdfNext, and each step changes vars.
SdfFair == []<>(pc = "done") \/ []<><<SdfNext>>_vars
SpecSdfLive == SpecSdf /\ SdfFair

\* ------------------------------------------------ detect_winding: inputs
Points == {<<x * One, y * One>> : x \in 0..MaxCoord, y \in 0..MaxCoord}
VertexLists == UNION {[1..n -> Points] : n \in 3..MaxVerts}

Rotated(q) == Tail(q) \o <<Head(q)>>
Reversed(q) == [i \in 1..Len(q) |-> q[Len(q) + 1 - i]]

WndInit ==
  /\ \E v \in VertexLists :
       wnd = [first |-> v, cur |-> v, reversed |-> FALSE,
              winding0 |-> DetectWinding(v), winding |-> DetectWinding(v)]
  /\ SdfIdle /\ WriteIdle /\ ReadIdle /\ DataIdle /\ CallIdle

\* detect_winding applied to the list shifted cyclically by one
DetectRotated ==
  /\ Len(wnd.cur) >= 3
  /\ wnd' = [wnd EXCEPT !.cur = Rotated(wnd.cur),
                        !.winding = DetectWinding(Rotated(wnd.cur))]
  /\ UNCHANGED <<sdfVars, writeVars, readVars, dataVars, callVars>>

\* detect_winding applied to the list in reverse order
DetectReversed ==
  /\ Len(wnd.cur) >= 3
  /\ wnd' = [wnd EXCEPT !.cur = Reversed(wnd.cur),
                        !.reversed = ~wnd.reversed,
                        !.winding = DetectWinding(Reversed(wnd.cur))]
  /\ UNCHANGED <<sdfVars, writeVars, readVars, dataVars, callVars>>

WndNext == DetectRotated \/ DetectReversed

SpecWinding == WndInit /\ [][WndNext]_vars

Flipped(winding) ==
  IF winding = "Clockwise" THEN "CounterClockwise"
  ELSE IF winding = "CounterClockwise" THEN "Clockwise"
  ELSE "Unknown"

UnitTriangle == << <<0, 0>>, <<One, 0>>, <<0, One>> >>

\* C6 (winding determinism): whatever cyclic rotations and reversals a
\* vertex list of at least 3 points has gone through, detect_winding gives
\* the winding of the original list when the list has been reversed an even
\* number of times, and the flipped winding (Clockwise <-> CounterClockwise,
\* Unknown stays Unknown) when it has been reversed an odd number of times;
\* the triangle [(0,0),(1,0),(0,1)] is CounterClockwise and its reverse is
\* Clockwise.
C6_WindingDeterminism ==
  /\ wnd.winding = IF wnd.reversed THEN Flipped(wnd.winding0)
                   ELSE wnd.winding0
  /\ wnd.cur = UnitTriangle => wnd.winding = "CounterClockwise"
  /\ wnd.cur = Reversed(UnitTriangle) => wnd.winding = "Clockwise"

\* a list of MaxVerts distinct-order points, reversed and then rotated, is
\* Clockwise where the original was CounterClockwise
C6_Witness ==
  /\ Len(wnd.cur) = MaxVerts
  /\ wnd.reversed
  /\ wnd.cur # Reversed(wnd.first)
  /\ wnd.winding0 = "CounterClockwise"
  /\ wnd.winding = "Clockwise"

\* ------------------------------------- writing a stack and reading it
\* the date argument, None: date.unwrap_or("1970-01-01")
DefaultDate == "1970-01-01"

\* z_pos of the slices built: zero, one with a sixth decimal, two
ZValues == {0, One + 4, 2 * One}
\* units_mm: None, zero, one not a multiple of 1e-5, two
UnitsValues == {NoUnits, 0, 4, 2 * One}
Formats == {"UseEmptyFirstLayer", "FirstLayerWithContent"}
\* arguments of PolyContour::new: a counter-clockwise triangle with a sixth
\* decimal, a clockwise one with a negative coordinate, three collinear
\* points
ContourInputs ==
  { [vertices |-> << <<0, 0>>, <<One, 0>>, <<0, One + 4>> >>,
     winding |-> "Unknown"],
    [vertices |-> << <<0, 0>>, <<-(One \div 2), 0>>, <<0, One>> >>,
     winding |-> "Clockwise"],
    [vertices |-> << <<0, 0>>, <<One, 0>>, <<2 * One, 0>> >>,
     winding |-> "Unknown"] }

RECURSIVE ContourCount(_)
ContourCount(slices) ==
  IF slices = << >> THEN 0
  ELSE Len(Head(slices).contours) + ContourCount(Tail(slices))

WriteInit ==
  /\ built = << >>
  /\ units_mm \in UnitsValues
  /\ format \in Formats
  /\ written = NoWrite
  /\ wpc = "build"
  /\ SdfIdle /\ WndIdle /\ ReadIdle /\ DataIdle /\ CallIdle

\* PolySlice::new(z) pushed onto the slices the stack is made from
AddSlice ==
  /\ wpc = "build"
  /\ Len(built) < MaxSlices
  /\ \E z \in ZValues : built' = Append(built, PolySliceNew(z))
  /\ UNCHANGED <<units_mm, format, written, wpc, sdfVars, wndVars, readVars, dataVars, callVars>>

AddContourOf(made) ==
  /\ made.ok
  /\ built' = [built EXCEPT ![Len(built)] = PolySliceAddContour(@, made.contour)]

\* PolyContour::new and add_contour on the slice pushed last
AddContour ==
  /\ wpc = "build"
  /\ built # << >>
  /\ ContourCount(built) < MaxContours
  /\ \E c \in ContourInputs : AddContourOf(PolyContourNew(c.vertices, c.winding))
  /\ UNCHANGED <<units_mm, format, written, wpc, sdfVars, wndVars, readVars, dataVars, callVars>>

\* PolySliceStack::from_slices and write_slices_to_cli_file
Write ==
  /\ wpc = "build"
  /\ written' = WriteSlicesToCliFile(PolySliceStackFromSlices(built), format,
                                     DefaultDate, units_mm)
  /\ wpc' = IF written'.ok THEN "written" ELSE "rejected"
  /\ UNCHANGED <<built, units_mm, format, sdfVars, wndVars, readVars, dataVars, callVars>>

\* slices_from_cli_file on the file written
ReadBack ==
  /\ wpc = "written"
  /\ rd' = SlicesFromCliFile(written.file)
  /\ wpc' = "read"
  /\ UNCHANGED <<built, units_mm, format, written, line_no, line, hist,
                 sdfVars, wndVars, dataVars, callVars>>

WriteNext == AddSlice \/ AddContour \/ Write \/ ReadBack

SpecRoundTrip == WriteInit /\ [][WriteNext]_vars

\* ------------------------------------------- the writer on its own
\* the arguments above and a second counter-clockwise triangle, declared so
WriteContourInputs ==
  ContourInputs
  \cup { [vertices |-> << <<0, 0>>, <<2 * One, 0>>, <<0, One>> >>,
          winding |-> "CounterClockwise"] }

\* PolyContour::new and add_contour on the slice pushed last
AddAnyContour ==
  /\ wpc = "build"
  /\ built # << >>
  /\ ContourCount(built) < MaxContours
  /\ \E c \in WriteContourInputs :
       AddContourOf(PolyContourNew(c.vertices, c.winding))
  /\ UNCHANGED <<units_mm, format, written, wpc, sdfVars, wndVars, readVars,
                 dataVars, callVars>>

WriterNext == AddSlice \/ AddAnyContour \/ Write

SpecWrite == WriteInit /\ [][WriterNext]_vars


\* ------------------------------------------- reading an arbitrary file
\* "a,b,c,..." for the numbers of q
RECURSIVE Csv(_)
Csv(q) ==
  IF q = << >> THEN << >>
  ELSE IF Len(q) = 1 THEN <<q[1]>>
  ELSE <<q[1], Comma>> \o Csv(Tail(q))

LayerLine(z) == Cmd("LAYER") \o <<Slash, NumInt(z)>>
\* $$POLYLINE/<id>,<dir>,<n>,<coordinates>
PolylineLine(id, dir, n, coords) ==
  Cmd("POLYLINE") \o <<Slash>> \o Csv(<<NumInt(id), NumInt(dir), NumInt(n)>> \o coords)

CommentLine == <<Space, W("//"), W("note")>>
LayerZs == {-1, 0, 1, 2}
TriangleCoords == <<NumInt(0), NumInt(0), NumInt(1), NumInt(0),
                    NumInt(0), NumInt(1)>>
CollinearCoords == <<NumInt(0), NumInt(0), NumInt(1), NumInt(0),
                     NumInt(2), NumInt(0)>>
\* the counter-clockwise triangle declared Clockwise, declared Unknown and
\* under label id 2; three collinear points declared Unknown
WindingLines ==
  { PolylineLine(1, 0, 3, TriangleCoords),
    PolylineLine(1, 2, 3, TriangleCoords),
    PolylineLine(2, 1, 3, TriangleCoords),
    PolylineLine(1, 2, 3, CollinearCoords) }
\* $$LABEL header lines of two ids; a command the reader does not know and
\* two whose names begin with one it knows
LabelLines ==
  { Cmd("LABEL") \o <<Slash, NumInt(1), Comma, W("default")>>,
    Cmd("LABEL") \o <<Slash, NumInt(2), Comma, W("other")>> }
OtherCommandLines ==
  { Cmd("HATCHES") \o <<Slash, NumInt(1)>>,
    Cmd2("LAYER", "S") \o <<Slash, NumInt(2)>>,
    Cmd2("POLYLINE", "S") \o <<Slash, NumInt(1)>> }
\* a counter-clockwise triangle declared so; records declaring 2, 1 and 0
\* vertices; a record with a coordinate that is no number; one that ends
\* before its last vertex
PolylineLines ==
  { PolylineLine(1, 1, 3, <<NumInt(0), NumInt(0), NumInt(1), NumInt(0),
                            NumInt(0), NumInt(1)>>),
    PolylineLine(1, 1, 2, <<NumInt(0), NumInt(0), NumInt(1), NumInt(0)>>),
    PolylineLine(1, 1, 1, <<NumInt(0), NumInt(0)>>),
    PolylineLine(1, 1, 0, << >>),
    PolylineLine(1, 1, 3, <<NumInt(0), NumInt(0), W("x"), NumInt(0),
                            NumInt(0), NumInt(1)>>),
    PolylineLine(1, 1, 3, <<NumInt(0), NumInt(0), NumInt(1), NumInt(0)>>) }
\* the physical lines a file is made of
FileLines ==
  { CommentLine,
    Cmd2("HEADER", "START"), Cmd("BINARY"), Cmd("ASCII"),
    Cmd("UNITS") \o <<Slash, NumInt(2)>>,
    Cmd2("HEADER", "END"), Cmd2("GEOMETRY", "START"), Cmd2("GEOMETRY", "END") }
  \cup {LayerLine(z) : z \in LayerZs}
  \cup PolylineLines \cup WindingLines \cup LabelLines \cup OtherCommandLines

\* what a trimmed line is, by its text alone
IsNumber(t) == t.k \in {"int", "dec"}
IsLayerRecord(t) ==
  /\ Len(t) = 4
  /\ StartsWith(t, Cmd("LAYER") \o <<Slash>>)
  /\ IsNumber(t[4])
IsPolylineRecord(t) == StartsWith(t, Cmd("POLYLINE") \o <<Slash>>)
\* $$POLYLINE/<id>,<dir>,<n> with three whole numbers, dir one of 0, 1, 2
HasPolylineHead(t) ==
  /\ IsPolylineRecord(t)
  /\ Len(t) >= 8
  /\ t[4].k = "int" /\ ~t[4].neg
  /\ t[5] = Comma
  /\ t[6].k = "int" /\ ~t[6].neg /\ t[6].i \in 0..2
  /\ t[7] = Comma
  /\ t[8].k = "int" /\ ~t[8].neg
PolylineIdOf(t) == t[4].i
DeclaredCount(t) == t[8].i
\* the head is followed by exactly 2 * n numbers, each after a comma
HasCoordinates(t, n) ==
  /\ Len(t) = 8 + 4 * n
  /\ \A k \in 1..(2 * n) : t[7 + 2 * k] = Comma /\ IsNumber(t[8 + 2 * k])

\* the history after the line trimmed to t was read in the reader state P
HistLayer(h, z, scaled) ==
  [h EXCEPT !.lastZ = z,
            !.decreased = h.decreased \/ (h.lastZ # NoZ /\ z < h.lastZ),
            !.positive = h.positive \/ scaled > 0,
            !.openZ = IF scaled > 0 THEN scaled ELSE h.openZ,
            !.zs = IF scaled > 0 THEN Append(@, scaled) ELSE @,
            !.layers = @ + 1]
\* a label id appears: the first is remembered, a different one noted
HistLabel(h, id) ==
  [h EXCEPT !.firstLabel = IF @ = NoLabel THEN id ELSE @,
            !.otherLabel = @ \/ h.firstLabel \notin {NoLabel, id}]
\* $$LABEL/<id> or $$POLYLINE/<id> with a whole number
IsLabelLine(t) ==
  /\ Len(t) >= 4
  /\ StartsWith(t, Cmd("LABEL") \o <<Slash>>)
  /\ t[4].k = "int"
HasPolylineId(t) ==
  /\ Len(t) >= 4
  /\ IsPolylineRecord(t)
  /\ t[4].k = "int"
HistOf(h, P, t) ==
  IF P.header_started /\ ~P.header_ended /\ StartsWith(t, Cmd("BINARY"))
  THEN [h EXCEPT !.binary = TRUE]
  ELSE IF P.header_started /\ ~P.header_ended /\ IsLabelLine(t)
  THEN HistLabel(h, t[4].i)
  ELSE IF P.geometry_started /\ IsLayerRecord(t)
  THEN HistLayer(h, TokenValue(t[4]), MulFix(TokenValue(t[4]), P.result.units_header))
  ELSE IF P.geometry_started /\ HasPolylineId(t)
  THEN HistLabel(h, t[4].i)
  ELSE h

ReadInit == ReadIdle /\ SdfIdle /\ WndIdle /\ WriteIdle /\ DataIdle /\ CallIdle

\* one iteration of the line loop, on the next physical line of the file
ReadLine ==
  /\ rd.status = "reading"
  /\ line_no < MaxLines
  /\ \E l \in FileLines :
       /\ rd' = ParseLine(rd, line_no, l)
       /\ line' = l
       /\ hist' = HistOf(hist, rd, Trim(StripComment(l)))
  /\ line_no' = line_no + 1
  /\ UNCHANGED <<sdfVars, wndVars, writeVars, dataVars, callVars>>

\* the file ends, or the loop was left at $$GEOMETRYEND: lines 507-512
EndOfFile ==
  /\ rd.status \in {"reading", "done"}
  /\ rd' = ReaderFinish(rd)
  /\ UNCHANGED <<line_no, line, hist, sdfVars, wndVars, writeVars, dataVars, callVars>>

ReadNext == ReadLine \/ EndOfFile

SpecCli == ReadInit /\ [][ReadNext]_vars

\* ------------------------------- contours, slices and stacks: methods
\* vertex lists given to PolyContour::new, in units of 2^-24: a
\* counter-clockwise triangle, three collinear points, two points, none
DataVertexLists ==
  { << <<0, 0>>, <<4, 0>>, <<0, 4>> >>,
    << <<0, 0>>, <<2, 0>>, <<4, 0>> >>,
    << <<0, 0>>, <<4, 0>> >>,
    << >> }
\* vertices given to add_vertex: the first vertex of every list, one at
\* half of f32::EPSILON from it, one at f32::EPSILON, one outside every bbox
DataPoints == { <<0, 0>>, <<1, 0>>, <<2, 0>>, <<-4, 4>> }
\* z_pos given to PolySlice::new
DataZs == {0, 3}

\* the contours and slices the caller and the stack hold
DataSlices == dm.slice \o dm.slices \o dm.stack.slices
DataContourCount == Len(dm.contour) + ContourCount(DataSlices)

DataInit ==
  /\ dm = [NoData EXCEPT !.last = "start"]
  /\ SdfIdle /\ WndIdle /\ WriteIdle /\ ReadIdle /\ CallIdle

\* the caller is at work and has calls left
DataCalled == dm.last # "none" /\ dm.ops < MaxOps

NewOf(made, vertices, winding) ==
  dm' = [dm EXCEPT !.contour = IF made.ok THEN <<made.contour>> ELSE << >>,
                   !.err = ~made.ok, !.last = "new", !.ops = @ + 1,
                   !.arg = vertices, !.declared = winding]

\* let c = PolyContour::new(vertices, winding)
New ==
  /\ DataCalled
  /\ dm.contour = << >>
  /\ DataContourCount < MaxContours
  /\ \E vertices \in DataVertexLists, winding \in Windings :
       NewOf(PolyContourNew(vertices, winding), vertices, winding)
  /\ UNCHANGED <<sdfVars, wndVars, writeVars, readVars, callVars>>

\* c.add_vertex(vec)
AddVertex ==
  /\ DataCalled
  /\ dm.contour # << >>
  /\ Len(dm.contour[1].vertices) < MaxVerts
  /\ \E vec \in DataPoints :
       dm' = [dm EXCEPT !.contour = <<PolyContourAddVertex(@[1], vec)>>,
                        !.last = "add_vertex", !.ops = @ + 1,
                      !.err = FALSE, !.arg = << >>, !.declared = "Unknown"]
  /\ UNCHANGED <<sdfVars, wndVars, writeVars, readVars, callVars>>

\* c.detect_winding_in_place()
DetectInPlace ==
  /\ DataCalled
  /\ dm.contour # << >>
  /\ dm' = [dm EXCEPT !.contour = <<PolyContourDetectWindingInPlace(@[1])>>,
                      !.last = "detect_winding_in_place", !.ops = @ + 1,
                      !.err = FALSE, !.arg = << >>, !.declared = "Unknown"]
  /\ UNCHANGED <<sdfVars, wndVars, writeVars, readVars, callVars>>

\* c.close()
Close ==
  /\ DataCalled
  /\ dm.contour # << >>
  /\ dm' = [dm EXCEPT !.contour = <<PolyContourClose(@[1])>>,
                      !.last = "close", !.ops = @ + 1,
                      !.err = FALSE, !.arg = << >>, !.declared = "Unknown"]
  /\ UNCHANGED <<sdfVars, wndVars, writeVars, readVars, callVars>>

\* let slice = PolySlice::new(z_pos)
SliceNew ==
  /\ DataCalled
  /\ dm.slice = << >>
  /\ Len(DataSlices) < MaxSlices
  /\ \E z_pos \in DataZs :
       dm' = [dm EXCEPT !.slice = <<PolySliceNew(z_pos)>>,
                        !.last = "slice_new", !.ops = @ + 1,
                      !.err = FALSE, !.arg = << >>, !.declared = "Unknown"]
  /\ UNCHANGED <<sdfVars, wndVars, writeVars, readVars, callVars>>

\* slice.add_contour(c)
SliceAddContour ==
  /\ DataCalled
  /\ dm.slice # << >>
  /\ dm.contour # << >>
  /\ dm' = [dm EXCEPT !.slice = <<PolySliceAddContour(@[1], dm.contour[1])>>,
                      !.contour = << >>,
                      !.last = "add_contour", !.ops = @ + 1,
                      !.err = FALSE, !.arg = << >>, !.declared = "Unknown"]
  /\ UNCHANGED <<sdfVars, wndVars, writeVars, readVars, callVars>>

\* slice.close()
SliceClose ==
  /\ DataCalled
  /\ dm.slice # << >>
  /\ dm' = [dm EXCEPT !.slice = <<PolySliceClose(@[1])>>,
                      !.last = "slice_close", !.ops = @ + 1,
                      !.err = FALSE, !.arg = << >>, !.declared = "Unknown"]
  /\ UNCHANGED <<sdfVars, wndVars, writeVars, readVars, callVars>>

\* slices.push(slice)
SlicePush ==
  /\ DataCalled
  /\ dm.slice # << >>
  /\ dm' = [dm EXCEPT !.slices = @ \o dm.slice, !.slice = << >>,
                      !.last = "push", !.ops = @ + 1,
                      !.err = FALSE, !.arg = << >>, !.declared = "Unknown"]
  /\ UNCHANGED <<sdfVars, wndVars, writeVars, readVars, callVars>>

\* stack.add_slices(slices)
AddSlices ==
  /\ DataCalled
  /\ dm.slices # << >>
  /\ dm' = [dm EXCEPT !.stack = PolySliceStackAddSlices(@, dm.slices),
                      !.slices = << >>,
                      !.last = "add_slices", !.ops = @ + 1,
                      !.err = FALSE, !.arg = << >>, !.declared = "Unknown"]
  /\ UNCHANGED <<sdfVars, wndVars, writeVars, readVars, callVars>>

\* stack = PolySliceStack::from_slices(slices)
FromSlices ==
  /\ DataCalled
  /\ dm.slices # << >>
  /\ dm' = [dm EXCEPT !.stack = PolySliceStackFromSlices(dm.slices),
                      !.slices = << >>,
                      !.last = "from_slices", !.ops = @ + 1,
                      !.err = FALSE, !.arg = << >>, !.declared = "Unknown"]
  /\ UNCHANGED <<sdfVars, wndVars, writeVars, readVars, callVars>>

DataNext ==
  \/ New \/ AddVertex \/ DetectInPlace \/ Close
  \/ SliceNew \/ SliceAddContour \/ SliceClose \/ SlicePush
  \/ AddSlices \/ FromSlices

SpecData == DataInit /\ [][DataNext]_vars

\* ------------ contours made by the methods, by from_sdf, by the reader
ContoursInit == SdfInit \/ ReadInit \/ DataInit
\* the reader runs where neither from_sdf nor a caller of the methods does
ReaderAlone == pc = "idle" /\ dm = NoData
ContoursNext == SdfNext \/ (ReaderAlone /\ ReadNext) \/ DataNext

SpecContours == ContoursInit /\ [][ContoursNext]_vars



\* ------------------------------------------- writer and reader: claims
\* the messages of the writer's Error::InvalidParameter returns
WriterInvalidParameter ==
  {"No valid slices detected (empty)", "Units must be positive"}

WriteReturned == wpc \in {"written", "rejected", "read"}

\* C4 (writer precondition rejection): when write_slices_to_cli_file has
\* returned for a stack with zero slices, or with an empty bounding box
\* (as when no slice has a contour), or for units <= 0, it has returned an
\* InvalidParameter error without having reached File::create; in every
\* other case the file has been created.
C4_WriterPrecondition ==
  WriteReturned =>
    /\ (\/ Len(built) = 0
        \/ BBox3IsEmpty(PolySliceStackFromSlices(built).bbox)
        \/ UnitsOr(units_mm) <= 0)
       => /\ ~written.ok
          /\ written.error \in WriterInvalidParameter
          /\ ~written.created
          /\ wpc = "rejected"
    /\ ContourCount(built) = 0 => ~written.created
    /\ (/\ Len(built) > 0
        /\ ~BBox3IsEmpty(PolySliceStackFromSlices(built).bbox)
        /\ UnitsOr(units_mm) > 0)
       => written.created /\ written.ok

\* a stack with slices and contours was rejected for its units, before
\* the file was created
C4_Witness ==
  /\ wpc = "rejected"
  /\ ContourCount(built) > 0
  /\ units_mm = 0
  /\ written.error = "Units must be positive"
  /\ ~written.created

IsCCW(c) == c.winding = "CounterClockwise"
IsCW(c) == c.winding = "Clockwise"
IsUnknown(c) == c.winding = "Unknown"
\* the contours in the order of the writer's three passes
ThreePassOrder(contours) ==
  SelectSeq(contours, IsCCW) \o SelectSeq(contours, IsCW)
  \o SelectSeq(contours, IsUnknown)

AllWound(slices) ==
  \A i \in 1..Len(slices) : \A j \in 1..Len(slices[i].contours) :
    slices[i].contours[j].winding \in {"Clockwise", "CounterClockwise"}

\* half a unit of the fifth decimal of a value divided by units, and one
\* 1e-6 step for the rounding of the product
Tolerance(units) == (5 * units) \div One + 1
Near(a, b, tol) == Abs(a - b) <= tol
SameVertices(v, u, tol) ==
  /\ Len(v) = Len(u)
  /\ \A k \in 1..Len(v) : Near(v[k][1], u[k][1], tol) /\ Near(v[k][2], u[k][2], tol)
SameContours(cs, ds, tol) ==
  /\ Len(cs) = Len(ds)
  /\ \A j \in 1..Len(cs) :
       /\ SameVertices(cs[j].vertices, ds[j].vertices, tol)
       /\ cs[j].winding = ds[j].winding
\* the stack read back has the slices written, contour by contour in the
\* order of the three passes
SameSlices(got, put, tol) ==
  /\ Len(got) = Len(put)
  /\ \A i \in 1..Len(got) :
       /\ Near(got[i].z_pos, put[i].z_pos, tol)
       /\ SameContours(got[i].contours, ThreePassOrder(put[i].contours), tol)

ReadBackSame ==
  /\ rd.status = "ok"
  /\ SameSlices(rd.result.slices.slices, built, Tolerance(UnitsOr(units_mm)))

\* the z_pos of the slices never decrease and are positive as written,
\* that is at least half of units / 100000
AscendingPositive(slices, units) ==
  /\ \A i \in 1..Len(slices) : TokenValue(FormatDec(slices[i].z_pos, units)) > 0
  /\ \A i \in 1..(Len(slices) - 1) : slices[i].z_pos <= slices[i + 1].z_pos

\* units is a whole multiple of 1e-5, which its 5 decimals written keep
UnitsWritable(units) == units > 0 /\ units % 10 = 0

\* C1 as stated: every stack the writer accepts whose contours are all
\* Clockwise or CounterClockwise is read back with the same slices,
\* whatever the z_pos of its slices, their order and the units.
C1_AsStated ==
  (wpc = "read" /\ AllWound(built)) => ReadBackSame

\* C1 (round trip, amended): a stack the writer accepts, whose contours are
\* all Clockwise or CounterClockwise, whose slices have z_pos that never
\* decrease and are positive as written with 5 decimals, written with units
\* that are a whole multiple of 1e-5, is read back without error as a stack
\* with the same number of slices and, slice by slice, the same number of
\* contours, which are the contours written in the order CounterClockwise
\* first, then Clockwise, each with the same winding, the same vertex count
\* and vertex coordinates within half of units / 100000.
C1_RoundTrip ==
  (/\ wpc = "read"
   /\ AllWound(built)
   /\ UnitsWritable(UnitsOr(units_mm))
   /\ AscendingPositive(built, UnitsOr(units_mm)))
  => ReadBackSame

\* two slices were written with units 2, the first holding a Clockwise
\* contour before a CounterClockwise one with a sixth decimal, and read back
C1_Witness ==
  /\ wpc = "read"
  /\ units_mm = 2 * One
  /\ Len(built) = MaxSlices
  /\ AllWound(built)
  /\ AscendingPositive(built, UnitsOr(units_mm))
  /\ Len(built[1].contours) = 2
  /\ IsCW(built[1].contours[1])
  /\ IsCCW(built[1].contours[2])
  /\ rd.status = "ok"
  /\ IsCCW(rd.result.slices.slices[1].contours[1])

\* ------------------------------------------- voxels.rs: vectorize
\* a / b for a >= 0 and 0 < b <= One, three decimals at a time
DivThousandths(n, b) == (n \div b) * 1000 + ((n % b) * 1000) \div b
DivFix(a, b) == (a \div b) * One + DivThousandths((a % b) * 1000, b)

\* nothing popped
PopEmptyKept(slices) == slices

RECURSIVE PopEmpty(_)
\* lines 715-726: while let Some(last) = slices.last() { if last.is_empty()
\* { slices.pop(); ... } else { break } }
PopEmpty(slices) ==
  IF slices = << >> THEN slices
  ELSE IF slices[Len(slices)].contours = << >>
  THEN PopEmpty(SubSeq(slices, 1, Len(slices) - 1))
  ELSE slices

VecFail(V, msg) == [V EXCEPT !.pc = "err", !.error = msg]

\* lines 645-683: the checks of the arguments and of the field's size, and
\* the locals of the loop
VectorizeBegin(V, layer_height) ==
  IF layer_height <= 0 THEN VecFail(V, "layer_height_mm must be positive")
  ELSE IF Max2(V.size[1], 0) = 0 \/ Max2(V.size[2], 0) = 0
          \/ Max2(V.size[3], 0) = 0
  THEN VecFail(V, "Voxel field is empty - cannot vectorize")
  ELSE [V EXCEPT !.pc = "loop",
                 !.layer_height = layer_height,
                 !.z_step = DivFix(layer_height, V.voxel_size),
                 !.z = 0,
                 !.layer_z = layer_height]

\* lines 685-707: one iteration of while z <= last_layer; poly_slice is what
\* from_sdf made of the layer, len the length of the interpolated slice.
\* f32::EPSILON is below the 1e-6 the model counts in, so two values differ
\* by less exactly when they are equal.
VectorizeLayer(V, poly_slice, len) ==
  IF len = 0 THEN VecFail(V, "Voxel slice has zero size")
  ELSE IF len # Max2(V.size[1], 0) * Max2(V.size[2], 0)
  THEN VecFail(V, "Interpolated slice has unexpected size")
  ELSE IF V.layer_z = V.layer_height /\ poly_slice.contours = << >>
  THEN [V EXCEPT !.z = @ + V.z_step, !.layer_z = @ + V.layer_height]
  ELSE [V EXCEPT !.slices = Append(@, PolySliceClose(poly_slice)),
                 !.layer_z = @ + V.layer_height,
                 !.z = @ + V.z_step]

\* lines 709-729, kept being the slices after the trailing empty ones
\* were popped
VectorizeReturn(V, kept) ==
  IF V.slices = << >> \/ kept = << >>
  THEN VecFail(V, "Voxel field is empty - cannot write .CLI file")
  ELSE [V EXCEPT !.slices = kept,
                 !.result = PolySliceStackFromSlices(kept),
                 !.pc = "ok"]

\* ------------------------------------------------ vectorize: inputs
VoxelSizes == {One \div 2, One}
\* layer_height_mm: 0.0 for the voxel size, a negative one, half and one
LayerHeights == {0, -One, One \div 2, One}
\* the size of the field in voxels: some with no voxel, some of 2 x 2
FieldSizes ==
  {<<0, 2, 1>>, <<2, -1, 1>>} \cup {<<2, 2, d>> : d \in 0..MaxDepth}
VoxelTriangle == << <<0, 0>>, <<4, 0>>, <<0, 4>> >>
\* what from_sdf makes of a layer: no contour, or one
LayerKinds == {"empty", "shape"}
SdfResult(kind, layer_z) ==
  IF kind = "shape"
  THEN PolySliceAddContour(PolySliceNew(layer_z),
                           PolyContourNew(VoxelTriangle, "Unknown").contour)
  ELSE PolySliceNew(layer_z)

VecInit ==
  /\ \E h \in LayerHeights, v \in VoxelSizes, s \in FieldSizes :
       vz = [NoVectorize EXCEPT !.pc = "begin", !.layer_height_mm = h,
                                !.voxel_size = v, !.size = s]
  /\ FfiIdle /\ SdfIdle /\ WndIdle /\ WriteIdle /\ ReadIdle /\ DataIdle

VecBegin ==
  /\ vz.pc = "begin"
  /\ vz' = VectorizeBegin(vz, IF vz.layer_height_mm = 0 THEN vz.voxel_size
                              ELSE vz.layer_height_mm)
  /\ UNCHANGED <<ffi, sdfVars, wndVars, writeVars, readVars, dataVars>>

\* the layer at z is sliced; the field decides what from_sdf finds there
VecLayer ==
  /\ vz.pc = "loop"
  /\ vz.z <= vz.size[3] * One - One
  /\ \E kind \in LayerKinds :
       vz' = [VectorizeLayer(vz, SdfResult(kind, vz.layer_z),
                             Max2(vz.size[1], 0) * Max2(vz.size[2], 0))
                EXCEPT !.layers = Append(@, kind)]
  /\ UNCHANGED <<ffi, sdfVars, wndVars, writeVars, readVars, dataVars>>

VecReturn ==
  /\ vz.pc = "loop"
  /\ vz.z > vz.size[3] * One - One
  /\ vz' = VectorizeReturn(vz, PopEmpty(vz.slices))
  /\ UNCHANGED <<ffi, sdfVars, wndVars, writeVars, readVars, dataVars>>

VecNext == VecBegin \/ VecLayer \/ VecReturn

SpecVectorize == VecInit /\ [][VecNext]_vars

\* --------------------------------------------- ffi_lock.rs: the lock
\* Each operator is what a thread does while it holds the Mutex of
\* ReentrantLock.state.  at[t] is "idle" outside with_ffi_lock, "lock" where
\* the thread is about to take the Mutex in lock_ffi (at the call, or woken
\* from the Condvar), "wait" inside cv.wait, "in" inside the closure.
Threads == 1..MaxThreads
Waiting(S) == {t \in Threads : S.at[t] = "wait"}

\* FfiGuard::drop without the notify calls
FfiGuardDropSilent(S, tid, woken) ==
  IF S.owner # tid
  THEN [S EXCEPT !.owner = NoOwner, !.depth = 0]
  ELSE IF S.depth - 1 <= 0
  THEN [S EXCEPT !.depth = 0, !.owner = NoOwner]
  ELSE [S EXCEPT !.depth = @ - 1]

\* lines 20-46, FfiGuard::drop of a guard of thread tid; woken is the
\* waiting thread notify_one wakes, NoOwner when no thread waits
FfiGuardDrop(S, tid, woken) ==
  IF S.owner # tid
  THEN [S EXCEPT !.owner = NoOwner, !.depth = 0,
                 !.at = [t \in Threads |->
                           IF S.at[t] = "wait" THEN "lock" ELSE S.at[t]]]
  ELSE IF Max2(S.depth - 1, 0) = 0
  THEN [S EXCEPT !.depth = 0, !.owner = NoOwner,
                 !.at = [t \in Threads |->
                           IF t = woken THEN "lock" ELSE S.at[t]]]
  ELSE [S EXCEPT !.depth = @ - 1]

\* lines 62-80: one pass of the loop of lock_ffi by thread tid
LockFfi(S, tid) ==
  IF S.owner = NoOwner
  THEN [S EXCEPT !.owner = tid, !.depth = 1,
                 !.at[tid] = "in", !.held[tid] = @ + 1]
  ELSE IF S.owner = tid
  THEN [S EXCEPT !.depth = @ + 1, !.at[tid] = "in", !.held[tid] = @ + 1]
  ELSE [S EXCEPT !.at[tid] = "wait"]

FfiInit ==
  /\ ffi = [owner |-> NoOwner, depth |-> 0,
            at |-> [t \in Threads |-> "idle"],
            held |-> [t \in Threads |-> 0]]
  /\ VecIdle /\ SdfIdle /\ WndIdle /\ WriteIdle /\ ReadIdle /\ DataIdle

\* lines 85-87: thread t calls with_ffi_lock, from outside or from inside a
\* closure that runs under the lock
FfiCall(t) ==
  /\ ffi.at[t] \in {"idle", "in"}
  /\ ffi.held[t] < MaxNest
  /\ ffi' = [ffi EXCEPT !.at[t] = "lock"]
  /\ UNCHANGED <<vz, sdfVars, wndVars, writeVars, readVars, dataVars>>

\* thread t takes the Mutex and looks at the owner
FfiLock(t) ==
  /\ ffi.at[t] = "lock"
  /\ ffi' = LockFfi(ffi, t)
  /\ UNCHANGED <<vz, sdfVars, wndVars, writeVars, readVars, dataVars>>

\* Condvar::wait may return without a notification
FfiSpuriousWake(t) ==
  /\ ffi.at[t] = "wait"
  /\ ffi' = [ffi EXCEPT !.at[t] = "lock"]
  /\ UNCHANGED <<vz, sdfVars, wndVars, writeVars, readVars, dataVars>>

\* the closure of thread t returns or unwinds and its guard is dropped
FfiReturn(t) ==
  /\ ffi.at[t] = "in"
  /\ ffi.held[t] > 0
  /\ \E woken \in (IF Waiting(ffi) = {} THEN {NoOwner} ELSE Waiting(ffi)) :
       ffi' = [FfiGuardDrop(ffi, t, woken) EXCEPT
                 !.held[t] = @ - 1,
                 !.at[t] = IF ffi.held[t] > 1 THEN "in" ELSE "idle"]
  /\ UNCHANGED <<vz, sdfVars, wndVars, writeVars, readVars, dataVars>>

FfiNext ==
  \E t \in Threads :
    FfiCall(t) \/ FfiLock(t) \/ FfiSpuriousWake(t) \/ FfiReturn(t)

SpecFfi == FfiInit /\ [][FfiNext]_vars

\* a thread that is about to take the Mutex in lock_ffi is scheduled in the
\* end, and the Mutex is handed to it; nothing makes a closure return or a
\* thread call
SpecFfiLive == SpecFfi /\ \A t \in Threads : WF_vars(FfiLock(t))

\* ------------------------------------------------------ reader: claims
\* C2 as stated: a file whose geometry section has held two consecutive
\* $$LAYER records with the second Z smaller than the first is never
\* answered with Ok, whatever its header holds.
C2_AsStated == ~(hist.decreased /\ rd.status = "ok")

\* C9 as stated: a file whose header section has held a $$BINARY line is
\* never answered with Ok.
C9_AsStated == ~(hist.binary /\ rd.status = "ok")

\* the step reads the next physical line inside the geometry section
\* while a slice is open
ReadsInOpenSlice ==
  /\ rd.status = "reading"
  /\ line_no' = line_no + 1
  /\ rd.geometry_started
  /\ ~rd.result.is_binary
  /\ rd.current_slice # << >>

\* the line trimmed to t is a $$POLYLINE record with a well-formed label
\* id that agrees with the label seen so far, winding code and vertex count
WellFormedHead(t) ==
  /\ HasPolylineHead(t)
  /\ rd.label_id \in {NoLabel, PolylineIdOf(t)}

\* C3 (degenerate polyline tolerance): when the reader, with a slice open,
\* reads a $$POLYLINE record whose fields are well-formed and which declares
\* fewer than 3 vertices, it adds no contour, leaves the open slice and the
\* closed slices as they are, appends exactly one warning, which carries the
\* number of physical lines read up to and including the record (blank and
\* comment lines counted, from 1), and goes on reading; and the end of the
\* file, reached while reading, returns Ok with the warnings kept.
C3_DegeneratePolyline ==
  [][/\ (/\ ReadsInOpenSlice
         /\ WellFormedHead(Trim(StripComment(line')))
         /\ DeclaredCount(Trim(StripComment(line'))) < 3
         /\ HasCoordinates(Trim(StripComment(line')),
                           DeclaredCount(Trim(StripComment(line')))))
        => /\ rd'.status = "reading"
           /\ rd'.current_slice = rd.current_slice
           /\ rd'.slices = rd.slices
           /\ rd'.result.warnings =
                Append(rd.result.warnings,
                       [line |-> line_no', what |-> "degenerate"])
     /\ (rd.status = "reading" /\ line_no' = line_no)
        => /\ rd'.status = "ok"
           /\ rd'.result.warnings = rd.result.warnings
           /\ rd'.result.slices.slices = rd.slices \o rd.current_slice
    ]_vars

\* a file whose 2-vertex record on its last line, a line number that counts
\* a comment line, left one warning with that number was answered with Ok,
\* its one slice empty
C3_Witness ==
  /\ rd.status = "ok"
  /\ line_no = 7
  /\ HasPolylineHead(line)
  /\ DeclaredCount(line) = 2
  /\ rd.result.warnings = <<[line |-> 7, what |-> "degenerate"]>>
  /\ Len(rd.result.slices.slices) = 1
  /\ rd.result.slices.slices[1].contours = << >>

\* C8 as stated: when the reader, with a slice open, reads a $$POLYLINE
\* record whose label, winding code and vertex count are well-formed but
\* one of whose coordinates is no number or is missing, it goes on reading
\* with one more warning and with the slices as they were.
C8_AsStated ==
  [][(/\ ReadsInOpenSlice
      /\ WellFormedHead(Trim(StripComment(line')))
      /\ ~HasCoordinates(Trim(StripComment(line')),
                         DeclaredCount(Trim(StripComment(line')))))
     => /\ rd'.status = "reading"
        /\ Len(rd'.result.warnings) = Len(rd.result.warnings) + 1
        /\ rd'.current_slice = rd.current_slice
        /\ rd'.slices = rd.slices
    ]_vars

\* the slices the reader holds, closed ones first
HeldSlices(P) == P.slices \o P.current_slice
\* slice t is slice s with one contour more
OneContourMore(s, t) ==
  /\ t.z_pos = s.z_pos
  /\ Len(t.contours) = Len(s.contours) + 1
  /\ SubSeq(t.contours, 1, Len(s.contours)) = s.contours
\* only the last of the slices held has changed, by one contour more
LastGrown(before, after) ==
  /\ Len(after) = Len(before)
  /\ Len(before) > 0
  /\ SubSeq(after, 1, Len(after) - 1) = SubSeq(before, 1, Len(before) - 1)
  /\ OneContourMore(before[Len(before)], after[Len(after)])

\* C10 (polyline needs an open slice): when a $$POLYLINE record is read in
\* the geometry section and no $$LAYER record whose Z times units is
\* positive has been read, the reader returns an error; and whenever a step
\* changes the slices held, either a $$LAYER record with positive scaled Z
\* has appended one empty slice at that Z, or a $$POLYLINE record has added
\* one contour to the last slice, which is the one at the scaled Z of the
\* most recent $$LAYER record with positive Z, all other slices unchanged.
C10_PolylineNeedsSlice ==
  [][/\ (/\ rd.status = "reading"
         /\ line_no' = line_no + 1
         /\ rd.geometry_started
         /\ IsPolylineRecord(Trim(StripComment(line')))
         /\ ~hist.positive)
        => rd'.status = "err"
     /\ HeldSlices(rd') # HeldSlices(rd)
        => \/ /\ IsLayerRecord(Trim(StripComment(line')))
              /\ hist'.openZ > 0
              /\ HeldSlices(rd') = Append(HeldSlices(rd), PolySliceNew(hist'.openZ))
           \/ /\ IsPolylineRecord(Trim(StripComment(line')))
              /\ hist.positive
              /\ LastGrown(HeldSlices(rd), HeldSlices(rd'))
              /\ rd'.current_slice[1].z_pos = hist.openZ
    ]_vars

\* a $$POLYLINE record read after a $$LAYER record with Z = 0 and no
\* positive one was answered with the error of the missing slice
C10_Witness ==
  /\ rd.status = "err"
  /\ rd.error = "There should not be contours at z position 0"
  /\ IsPolylineRecord(line)
  /\ hist.lastZ = 0
  /\ ~hist.positive

\* ------------------------------------------------------ from_sdf: claims
UnusedSegments == {i \in 1..Len(segments) : ~segments[i].used}

\* C5 (segment conservation): once the segments are extracted, at every
\* step of the stitching loop segments_left is the number of segments whose
\* used flag is false; no segment's used flag is ever set twice; and when
\* from_sdf has returned every segment is used, and the segments consumed
\* in contours added to the slice plus those consumed in chains given up
\* are all the segments extracted.
C5_SegmentConservation ==
  /\ pc \in {"stitch", "done"} =>
       /\ segments_left = Cardinality(UnusedSegments)
       /\ \A i \in 1..Len(acct.marks) : acct.marks[i] <= 1
       /\ Len(acct.marks) = Len(segments)
  /\ pc = "done" =>
       /\ UnusedSegments = {}
       /\ acct.chain = 0
       /\ acct.final + acct.dropped = Len(segments)

\* from_sdf has returned after adding a contour and after giving up a chain
C5_Witness ==
  /\ pc = "done"
  /\ acct.final > 0
  /\ acct.dropped > 0
  /\ Len(slice.contours) > 0

\* C7 (square-ring example): from_sdf on a 5x5 raster whose 3x3 interior
\* is negative and whose border is positive, with offset 0 and scale 1,
\* returns a slice with exactly one contour, of winding other than Unknown
\* and with at least 4 vertices, and all extracted segments are consumed in
\* that contour.
C7_SquareRing ==
  (pc = "done" /\ img \in RingRasters /\ offset = <<0, 0>> /\ scale = One) =>
    /\ Len(slice.contours) = 1
    /\ slice.contours[1].winding # "Unknown"
    /\ Len(slice.contours[1].vertices) >= 4
    /\ Len(segments) > 0
    /\ acct.final = Len(segments)
    /\ acct.dropped = 0

\* from_sdf has returned the one contour of a square ring
C7_Witness ==
  /\ pc = "done"
  /\ img \in RingRasters
  /\ offset = <<0, 0>>
  /\ scale = One
  /\ Len(slice.contours) = 1
  /\ acct.final = Len(segments)

\* the z_pos of the slices of a stack, in order
ZPositions(slices) == [k \in 1..Len(slices) |-> slices[k].z_pos]

\* C11: when the reader answers Ok, the returned stack holds exactly one
\* slice for every $$LAYER record of the geometry section whose Z times the
\* header units is positive, in the order of the file and with that product
\* as z_pos; records with a product of 0 or less made no slice, and slices
\* without contours are kept.
C11_SlicePerPositiveLayer ==
  rd.status = "ok" => ZPositions(rd.result.slices.slices) = hist.zs

\* a file of three $$LAYER records, one of them with Z <= 0, was answered
\* with two slices, the first of them without contours and the second with
\* one
C11_Witness ==
  /\ rd.status = "ok"
  /\ hist.layers = 3
  /\ Len(hist.zs) = 2
  /\ Len(rd.result.slices.slices) = 2
  /\ rd.result.slices.slices[1].contours = << >>
  /\ Len(rd.result.slices.slices[2].contours) = 1

RECURSIVE SlashAt(_, _)
\* the 1-based place of the first "/" of t from i on, Len(t) + 1 without one
SlashAt(t, i) ==
  IF i > Len(t) \/ t[i] = Slash THEN i ELSE SlashAt(t, i + 1)
\* the command a line names: what stands before its parameters
CommandName(t) == SubSeq(t, 1, SlashAt(t, 1) - 1)
\* a line of the geometry section that starts with $$ and names none of the
\* commands $$LAYER, $$POLYLINE and $$GEOMETRYEND
IsOtherCommand(t) ==
  /\ StartsWith(t, <<W("$$")>>)
  /\ CommandName(t) \notin {Cmd("LAYER"), Cmd("POLYLINE"), Cmd2("GEOMETRY", "END")}
ReadsInGeometry ==
  /\ rd.status = "reading"
  /\ rd.geometry_started
  /\ line_no' = line_no + 1

\* C12 as stated: a line of the geometry section that starts with $$ and is
\* none of $$LAYER, $$POLYLINE and $$GEOMETRYEND ($$HATCHES, but $$LAYERS and
\* $$POLYLINES as well) appends one warning of an unsupported command, never
\* fails the parse and leaves the slices as they were.
C12_AsStated ==
  [][(ReadsInGeometry /\ IsOtherCommand(Trim(StripComment(line'))))
     => /\ rd'.status = "reading"
        /\ rd'.result.warnings =
             Append(rd.result.warnings,
                    [line |-> line_no', what |-> "unsupported command"])
        /\ rd'.current_slice = rd.current_slice
        /\ rd'.slices = rd.slices
    ]_vars

\* C13 as stated: the reader fails with "Multiple labels not supported" only
\* when a label id different from the first one has appeared in a $$LABEL
\* line or a $$POLYLINE record; a file all of whose labels carry one id is
\* never rejected for multiple labels.
C13_AsStated ==
  (rd.status = "err" /\ rd.error = "Multiple labels not supported")
    => hist.otherLabel

\* ------------------------------------------------------ writer: claims
RECURSIVE LayerGroups(_, _, _)
\* the $$POLYLINE records of a file from its i-th line on, grouped by the
\* $$LAYER record they follow; groups holds those of the lines before
LayerGroups(file, i, groups) ==
  IF i > Len(file) THEN groups
  ELSE IF StartsWith(file[i], Cmd("LAYER") \o <<Slash>>)
  THEN LayerGroups(file, i + 1, Append(groups, << >>))
  ELSE IF IsPolylineRecord(file[i]) /\ groups # << >>
  THEN LayerGroups(file, i + 1,
                   [groups EXCEPT ![Len(groups)] = Append(@, file[i])])
  ELSE LayerGroups(file, i + 1, groups)
\* the groups of the slices: without that of the synthetic first layer
SliceGroups(file, fmt) ==
  IF fmt = "UseEmptyFirstLayer" THEN Tail(LayerGroups(file, 1, << >>))
  ELSE LayerGroups(file, 1, << >>)
\* the orientation code of a $$POLYLINE record
CodeOf(record) == record[6].i
\* CounterClockwise before Clockwise before Unknown
PassRank(c) == IF IsCCW(c) THEN 0 ELSE IF IsCW(c) THEN 1 ELSE 2
\* the records are those of the contours, each once: the CounterClockwise
\* ones with code 1, then the Clockwise ones with code 0, then the Unknown
\* ones with code 2, contours of one winding in the order of insertion
InPassOrder(records, contours, units) ==
  /\ Len(records) = Len(contours)
  /\ \A j \in 1..Len(records) :
       /\ records[j] = PolylineText(ThreePassOrder(contours)[j], units)
       /\ CodeOf(records[j]) =
            <<1, 0, 2>>[PassRank(ThreePassOrder(contours)[j]) + 1]
  /\ \A j \in 1..Len(contours) : \A k \in 1..Len(contours) :
       (j < k /\ PassRank(contours[j]) = PassRank(contours[k]))
         => \E p, q \in 1..Len(records) :
              /\ p < q
              /\ records[p] = PolylineText(contours[j], units)
              /\ records[q] = PolylineText(contours[k], units)
GroupsInPassOrder(groups, slices, units) ==
  /\ Len(groups) = Len(slices)
  /\ \A i \in 1..Len(groups) : InPassOrder(groups[i], slices[i].contours, units)

\* C14: in a file the writer has written, the $$POLYLINE records of every
\* slice are those of its contours, each exactly once: the CounterClockwise
\* ones (code 1) before the Clockwise ones (code 0) before the Unknown ones
\* (code 2), contours of the same winding in the order they were added; and
\* the codes are those the reader maps back to the same winding.
C14_ThreePassWrite ==
  /\ written.ok
       => GroupsInPassOrder(SliceGroups(written.file, format), built,
                            UnitsOr(units_mm))
  /\ \A w \in Windings : WindingOfCode(CodeOfWinding(w)) = w

\* a slice whose contours were added as Unknown, then CounterClockwise was
\* written with the record of code 1 before that of code 2
C14_Witness ==
  /\ written.ok
  /\ Len(built) = 1
  /\ Len(built[1].contours) = 2
  /\ IsUnknown(built[1].contours[1])
  /\ IsCCW(built[1].contours[2])
  /\ Len(SliceGroups(written.file, format)) = 1
  /\ Len(SliceGroups(written.file, format)[1]) = 2
  /\ CodeOf(SliceGroups(written.file, format)[1][1]) = 1
  /\ CodeOf(SliceGroups(written.file, format)[1][2]) = 2

IsLayerLine(l) == StartsWith(l, Cmd("LAYER") \o <<Slash>>)
IsLayersLine(l) == StartsWith(l, Cmd2("LAYER", "S") \o <<Slash>>)
\* the $$LAYER records of a file, in order
LayerRecords(file) == SelectSeq(file, IsLayerLine)
\* the values of the $$LAYERS lines of a file
LayersValues(file) ==
  [k \in 1..Len(SelectSeq(file, IsLayersLine)) |->
     SelectSeq(file, IsLayersLine)[k][5].i]
\* the $$LAYER records the slices are written as
RecordsOfSlices(slices, units) ==
  [k \in 1..Len(slices) |->
     Cmd("LAYER") \o <<Slash, FormatDec(slices[k].z_pos, units)>>]
SyntheticLayer == Cmd("LAYER") \o <<Slash, NumDec(FALSE, 0, 0)>>

\* C15: a file the writer has written has one $$LAYERS line, whose value is
\* the number of $$LAYER records of the file: the number of slices for
\* FirstLayerWithContent, one more for UseEmptyFirstLayer; the records are
\* those of the slices in order, preceded by a synthetic $$LAYER/0.0 for
\* UseEmptyFirstLayer and only then.
C15_LayerCount ==
  written.ok =>
    /\ LayersValues(written.file) = <<Len(LayerRecords(written.file))>>
    /\ format = "FirstLayerWithContent" =>
         /\ Len(LayerRecords(written.file)) = Len(built)
         /\ LayerRecords(written.file) =
              RecordsOfSlices(built, UnitsOr(units_mm))
    /\ format = "UseEmptyFirstLayer" =>
         /\ Len(LayerRecords(written.file)) = Len(built) + 1
         /\ LayerRecords(written.file) =
              <<SyntheticLayer>> \o RecordsOfSlices(built, UnitsOr(units_mm))

\* two slices were written with UseEmptyFirstLayer: the header says 3 and
\* the geometry holds three $$LAYER records
C15_Witness ==
  /\ written.ok
  /\ format = "UseEmptyFirstLayer"
  /\ Len(built) = 2
  /\ LayersValues(written.file) = <<3>>
  /\ Len(LayerRecords(written.file)) = 3

\* ------------------------------------- contours and slices: claims
\* every contour of the slices has at least 3 vertices
AtLeast3(slices) ==
  \A i \in 1..Len(slices) : \A j \in 1..Len(slices[i].contours) :
    Len(slices[i].contours[j].vertices) >= 3

\* C16 (contour size): PolyContour::new returns an error exactly for fewer
\* than 3 vertices, and every contour that exists has at least 3 vertices:
\* the one a caller holds after any calls of new, add_vertex, close and
\* detect_winding_in_place, those of the slices and stacks made of them,
\* those from_sdf has added to its slice and those the reader holds or
\* returns.
C16_ContourSize ==
  /\ dm.last = "new" => (dm.err <=> Len(dm.arg) < 3)
  /\ dm.last = "new" /\ ~dm.err => dm.contour # << >>
  /\ \A k \in 1..Len(dm.contour) : Len(dm.contour[k].vertices) >= 3
  /\ AtLeast3(DataSlices)
  /\ AtLeast3(<<slice>>)
  /\ AtLeast3(HeldSlices(rd))
  /\ AtLeast3(rd.result.slices.slices)

\* PolyContour::new has answered two vertices with an error, after a
\* contour of 3 vertices had one added, was closed to 5 and put in a slice
C16_Witness ==
  /\ dm.last = "new"
  /\ dm.err
  /\ Len(dm.arg) = 2
  /\ dm.contour = << >>
  /\ dm.slice # << >>
  /\ Len(dm.slice[1].contours) = 1
  /\ Len(dm.slice[1].contours[1].vertices) = 5

\* C17 as stated: for every vertex list and every declared winding the
\* contour PolyContour::new returns has the winding detect_winding finds
\* for its vertices, not the declared one.
C17_AsStated ==
  (dm.last = "new" /\ ~dm.err)
    => dm.contour[1].winding = DetectWinding(dm.contour[1].vertices)

\* the vertices of the $$POLYLINE record t, scaled by units
LineVertices(t, units) ==
  [i \in 1..DeclaredCount(t) |->
     <<MulFix(TokenValue(t[6 + 4 * i]), units),
       MulFix(TokenValue(t[8 + 4 * i]), units)>>]

\* C18 as stated: when the reader, with a slice open, reads a well-formed
\* $$POLYLINE record of at least 3 vertices whose signed area is zero, it
\* adds the contour to the open slice, appends a warning and goes on.
C18_AsStated ==
  [][(/\ ReadsInOpenSlice
      /\ WellFormedHead(Trim(StripComment(line')))
      /\ DeclaredCount(Trim(StripComment(line'))) >= 3
      /\ HasCoordinates(Trim(StripComment(line')),
                        DeclaredCount(Trim(StripComment(line'))))
      /\ DetectWinding(LineVertices(Trim(StripComment(line')),
                                    rd.result.units_header)) = "Unknown")
     => /\ rd'.status = "reading"
        /\ LastGrown(HeldSlices(rd), HeldSlices(rd'))
        /\ Len(rd'.result.warnings) = Len(rd.result.warnings) + 1
    ]_vars

\* the step is a call of the method named what
Calls(what) == dm'.ops = dm.ops + 1 /\ dm'.last = what
First(c) == c.vertices[1]
Last(c) == c.vertices[Len(c.vertices)]
\* c.vertices after close: those before, with the first one appended or not
AppendedAtMostFirst(before, after) ==
  after.vertices \in {before.vertices, Append(before.vertices, First(before))}
\* close took slice s to slice t: contour by contour, and nothing else
ClosedEach(s, t) ==
  /\ Len(t.contours) = Len(s.contours)
  /\ \A k \in 1..Len(s.contours) :
       /\ t.contours[k] = PolyContourClose(s.contours[k])
       /\ t.contours[k].winding = s.contours[k].winding
  /\ t.bbox = s.bbox
  /\ t.z_pos = s.z_pos

\* C19 as stated: PolyContour::close leaves the first and the last vertex
\* equal, appends at most one vertex, the first one and only when first and
\* last differ, and applied twice gives what it gives applied once;
\* PolySlice::close does this to every contour and changes neither the
\* contour count nor a winding nor the slice bbox.
C19_AsStated ==
  [][/\ Calls("close")
        => /\ First(dm'.contour[1]) = Last(dm'.contour[1])
           /\ AppendedAtMostFirst(dm.contour[1], dm'.contour[1])
           /\ (dm'.contour[1].vertices # dm.contour[1].vertices)
                <=> (First(dm.contour[1]) # Last(dm.contour[1]))
           /\ PolyContourClose(dm'.contour[1]) = dm'.contour[1]
     /\ Calls("slice_close") => ClosedEach(dm.slice[1], dm'.slice[1])
    ]_vars

\* C19 (close, amended): PolyContour::close leaves the first and the last
\* vertex no farther apart than f32::EPSILON, and equal when it appended;
\* it appends at most one vertex, the first one, and does so exactly when
\* first and last were farther apart than f32::EPSILON; applied twice it
\* gives what it gives applied once, and it changes neither winding nor
\* bbox; PolySlice::close does this to every contour and changes neither
\* the contour count nor a winding nor the slice bbox.
C19_CloseIdempotent ==
  [][/\ Calls("close")
        => /\ ~NormAboveEpsilon(First(dm'.contour[1]), Last(dm'.contour[1]))
           /\ AppendedAtMostFirst(dm.contour[1], dm'.contour[1])
           /\ (dm'.contour[1].vertices # dm.contour[1].vertices)
                <=> NormAboveEpsilon(First(dm.contour[1]), Last(dm.contour[1]))
           /\ (dm'.contour[1].vertices # dm.contour[1].vertices)
                => First(dm'.contour[1]) = Last(dm'.contour[1])
           /\ PolyContourClose(dm'.contour[1]) = dm'.contour[1]
           /\ dm'.contour[1].winding = dm.contour[1].winding
           /\ dm'.contour[1].bbox = dm.contour[1].bbox
     /\ Calls("slice_close") => ClosedEach(dm.slice[1], dm'.slice[1])
    ]_vars

\* close was called on a contour whose last vertex is half of f32::EPSILON
\* from the first: nothing was appended, first and last differ
C19_Witness ==
  /\ dm.last = "close"
  /\ Len(dm.contour[1].vertices) = 4
  /\ First(dm.contour[1]) # Last(dm.contour[1])
  /\ ~NormAboveEpsilon(First(dm.contour[1]), Last(dm.contour[1]))

\* the least and the greatest of a set of numbers
SetMin(S) == CHOOSE m \in S : \A x \in S : m <= x
SetMax(S) == CHOOSE m \in S : \A x \in S : m >= x
\* the box around a set of points of dimension 2, of dimension 3
BoxAround2(pts) ==
  IF pts = {} THEN BBox2Empty
  ELSE [min |-> <<SetMin({p[1] : p \in pts}), SetMin({p[2] : p \in pts})>>,
        max |-> <<SetMax({p[1] : p \in pts}), SetMax({p[2] : p \in pts})>>]
BoxAround3(pts) ==
  IF pts = {} THEN BBox3Empty
  ELSE [min |-> <<SetMin({p[1] : p \in pts}), SetMin({p[2] : p \in pts}),
                  SetMin({p[3] : p \in pts})>>,
        max |-> <<SetMax({p[1] : p \in pts}), SetMax({p[2] : p \in pts}),
                  SetMax({p[3] : p \in pts})>>]
VerticesOf(c) == {c.vertices[k] : k \in 1..Len(c.vertices)}
\* the corners of the bboxes of the contours of a slice
ContourCorners(s) ==
  UNION {{s.contours[j].bbox.min, s.contours[j].bbox.max} :
           j \in 1..Len(s.contours)}
\* the corners of the bboxes of the slices that have one, at their z_pos
SliceCorners(slices) ==
  UNION {{<<slices[i].bbox.min[1], slices[i].bbox.min[2], slices[i].z_pos>>,
          <<slices[i].bbox.max[1], slices[i].bbox.max[2], slices[i].z_pos>>} :
           i \in {k \in 1..Len(slices) : ~BBox2IsEmpty(slices[k].bbox)}}
ExactSlice(s) ==
  /\ s.bbox = BoxAround2(ContourCorners(s))
  /\ \A j \in 1..Len(s.contours) :
       s.contours[j].bbox = BoxAround2(VerticesOf(s.contours[j]))

\* C20 (bounding boxes): after any calls of PolyContour::new and add_vertex
\* (and close), PolySlice::add_contour and close, PolySliceStack::from_slices
\* and add_slices, the bbox of every contour is the box around its
\* vertices, the bbox of every slice is the union of the bboxes of its
\* contours, empty when it has none, and the bbox of the stack is the union
\* of the bboxes of its slices, each at the z_pos of its slice.
C20_BBoxes ==
  /\ \A k \in 1..Len(dm.contour) :
       dm.contour[k].bbox = BoxAround2(VerticesOf(dm.contour[k]))
  /\ \A i \in 1..Len(DataSlices) : ExactSlice(DataSlices[i])
  /\ dm.stack.bbox = BoxAround3(SliceCorners(dm.stack.slices))

\* add_slices has added two slices at different z_pos to the stack, the
\* first without contours and the second with one: the bbox of the stack
\* lies at the z_pos of the second
C20_Witness ==
  /\ dm.last = "add_slices"
  /\ Len(dm.stack.slices) = 2
  /\ dm.stack.slices[1].z_pos # dm.stack.slices[2].z_pos
  /\ dm.stack.slices[1].contours = << >>
  /\ Len(dm.stack.slices[2].contours) = 1
  /\ dm.stack.bbox.min[3] = dm.stack.slices[2].z_pos
  /\ dm.stack.bbox.max[3] = dm.stack.slices[2].z_pos
  /\ dm.stack.bbox.max[1] = 4

\* ------------------------------------------- from_sdf: the edge table
\* corner c of a cell is negative in the sign assignment numbered m
CornerNegative(m, c) == (m \div (2 ^ c)) % 2 = 1
\* the two corners of the edges bottom = 0, right = 1, top = 2, left = 3
EdgeCorners == << <<0, 1>>, <<1, 2>>, <<3, 2>>, <<0, 3>> >>
SignChangeEdges(m) ==
  {e \in 0..3 : CornerNegative(m, EdgeCorners[e + 1][1])
                  # CornerNegative(m, EdgeCorners[e + 1][2])}
TableEdges(m) == {e \in 0..3 : BitSet(EDGE_LUT[m + 1][1], e)}
\* the (from, to) edge pairs the segment loop reads from the row of m
TablePairs(m) ==
  IF EDGE_LUT[m + 1][1] = 0 \/ EDGE_LUT[m + 1][2] < 0 THEN << >>
  ELSE IF EDGE_LUT[m + 1][4] < 0
  THEN << <<EDGE_LUT[m + 1][2], EDGE_LUT[m + 1][3]>> >>
  ELSE << <<EDGE_LUT[m + 1][2], EDGE_LUT[m + 1][3]>>,
          <<EDGE_LUT[m + 1][4], EDGE_LUT[m + 1][5]>> >>
EndpointUses(m, e) ==
  {ik \in (1..Len(TablePairs(m))) \X (1..2) : TablePairs(m)[ik[1]][ik[2]] = e}
Cells(raster) == (0..(raster.w - 2)) \X (0..(raster.h - 2))
CornerValue(raster, x, y, c) ==
  CASE c = 0 -> gray_value(raster, x, y)
    [] c = 1 -> gray_value(raster, x + 1, y)
    [] c = 2 -> gray_value(raster, x + 1, y + 1)
    [] c = 3 -> gray_value(raster, x, y + 1)

\* C24 (edge table): for each of the 16 sign assignments of a cell's
\* corners, the crossed-edge bitmask of its EDGE_LUT row is exactly the set
\* of edges (bottom = 0, right = 1, top = 2, left = 3) whose two corners
\* differ in sign; the rows 0 and 15 give no segment, the rows 5 and 10 two
\* and every other row one; every segment endpoint is a crossed edge and
\* every crossed edge is the endpoint of exactly one segment.  In the
\* raster given to from_sdf every edge a crossing is computed for joins a
\* negative corner and a non-negative one, and each cell yields the number
\* of segments of its row.
C24_EdgeTable ==
  /\ \A m \in 0..15 :
       /\ TableEdges(m) = SignChangeEdges(m)
       /\ Len(TablePairs(m)) = (IF m \in {0, 15} THEN 0
                                ELSE IF m \in {5, 10} THEN 2 ELSE 1)
       /\ \A i \in 1..Len(TablePairs(m)) :
            /\ TablePairs(m)[i][1] \in TableEdges(m)
            /\ TablePairs(m)[i][2] \in TableEdges(m)
       /\ \A e \in TableEdges(m) : Cardinality(EndpointUses(m, e)) = 1
  /\ pc \in {"stitch", "done"} =>
       \A cell \in Cells(img) :
         /\ \A e \in TableEdges(LutIndex(img, cell[1], cell[2])) :
              (CornerValue(img, cell[1], cell[2], EdgeCorners[e + 1][1]) < 0)
                # (CornerValue(img, cell[1], cell[2], EdgeCorners[e + 1][2]) < 0)
         /\ Len(CellSegments(img, cell[1], cell[2], offset, scale))
              = Len(TablePairs(LutIndex(img, cell[1], cell[2])))

\* the segments of a raster with a saddle cell and a one-segment cell have
\* been extracted
C24_Witness ==
  /\ pc = "stitch"
  /\ \E cell \in Cells(img) : LutIndex(img, cell[1], cell[2]) = 5
  /\ \E cell \in Cells(img) : LutIndex(img, cell[1], cell[2]) = 14
  /\ Len(segments) >= 3

\* ------------------------------------- from_sdf: the stitching loop
\* the next iteration of the loop starts with the seed search
SeedSearched == pc = "stitch" /\ segments_left > 0 /\ curr_start = NoIdx
ConsumedBelow(n) ==
  \A i \in 0..(n - 1) : i < Len(segments) => SegAt(segments, i).used

\* twice the segments left, plus one while a chain is open
LoopMeasure == 2 * segments_left + (IF curr_start # NoIdx THEN 1 ELSE 0)

\* C22 (the loop ends): from_sdf returns (there is no error path in it);
\* each iteration of the loop lowers LoopMeasure; whenever the loop
\* searches a new seed every segment with an index below unused is
\* consumed already, no iteration of the loop answers the seed search with
\* None (the break of line 365), so the loop is left with
\* segments_left = 0 only.
C22_LoopTerminates ==
  /\ [][(pc = "stitch" /\ pc' = "stitch") => LoopMeasure' < LoopMeasure]_vars
  /\ [](SeedSearched => ConsumedBelow(unused))
  /\ []((pc = "stitch" /\ segments_left > 0)
          => LoopBody(Locals).branch # "break")
  /\ [](pc = "done" => segments_left = 0)
  /\ <>(pc = "done")

\* from_sdf has returned after taking a seed behind the first segment
C22_Witness ==
  /\ pc = "done"
  /\ unused > 2
  /\ Len(segments) > unused
  /\ acct.dropped > 0
  /\ acct.final > 0

\* the segment with index idx is unconsumed, and it is the best match of
\* both the head and the tail of the open chain
JoinsBothEnds(idx) ==
  /\ idx # NoIdx
  /\ ~SegAt(segments, idx).used
  /\ BestMatches(segments, curr_start, curr_end).start = idx
  /\ BestMatches(segments, curr_start, curr_end).end = idx

RECURSIVE ScanAll(_, _, _, _, _)
\* the two candidate updates applied to every unconsumed segment from idx on
ScanAll(segs, idx, head, tail, best) ==
  IF idx >= Len(segs) THEN best
  ELSE IF SegAt(segs, idx).used THEN ScanAll(segs, idx + 1, head, tail, best)
  ELSE ScanAll(segs, idx + 1, head, tail,
               Better(best, idx,
                      NormSquared(head, SegAt(segs, idx).end),
                      NormSquared(tail, SegAt(segs, idx).start)))

\* the best matches when all unconsumed segments are scanned
BestOfAll(segs, cs_idx, ce_idx) ==
  ScanAll(segs, 0, SegAt(segs, cs_idx).start, SegAt(segs, ce_idx).end,
          BestInit(cs_idx, ce_idx,
                   NormSquared(SegAt(segs, cs_idx).start,
                               SegAt(segs, ce_idx).end)))

\* the locals at the search of the next iteration: the open chain, or the
\* chain the iteration seeds
AtSearch(L) ==
  IF L.curr_start # NoIdx THEN L
  ELSE SeedWith(L, FirstUnused(L.segments, L.unused))

SameMatches(L) ==
  BestMatches(L.segments, L.curr_start, L.curr_end)
    = BestOfAll(L.segments, L.curr_start, L.curr_end)

\* C26 as stated: in every iteration of the stitching loop, for every
\* raster and scale, the search pruned by the Y range of the chain's ends
\* finds the best head and tail matches that a scan of all unconsumed
\* segments finds.
C26_AsStated ==
  (pc = "stitch" /\ segments_left > 0) => SameMatches(AtSearch(Locals))

\* ------------------------------------ from_sdf: segments on cell edges
\* the cell beyond edge e of the cell (x, y), and the number that edge has
\* in it
NeighbourCell(x, y, e) ==
  CASE e = 0 -> <<x, y - 1>>
    [] e = 1 -> <<x + 1, y>>
    [] e = 2 -> <<x, y + 1>>
    [] e = 3 -> <<x - 1, y>>
OppositeEdge(e) == (e + 2) % 4
OnBorder(raster, x, y, e) == NeighbourCell(x, y, e) \notin Cells(raster)
\* the crossing of edge e of the cell (x, y) as the segments carry it
OutputCrossing(x, y, e) == ToOutput(Crossing(img, x, y, e), offset, scale)
StartingAt(p) == {i \in 1..Len(segments) : segments[i].start = p}
EndingAt(p) == {i \in 1..Len(segments) : segments[i].end = p}

\* what C27 asks of the crossed edge e of the cell (x, y); nb is the cell
\* beyond the edge
ChainsAcross(x, y, e, nb) ==
  IF OnBorder(img, x, y, e)
  THEN Cardinality(StartingAt(OutputCrossing(x, y, e)))
         + Cardinality(EndingAt(OutputCrossing(x, y, e))) = 1
  ELSE /\ BitSet(EDGE_LUT[LutIndex(img, nb[1], nb[2]) + 1][1], OppositeEdge(e))
       /\ Crossing(img, nb[1], nb[2], OppositeEdge(e)) = Crossing(img, x, y, e)
       /\ Cardinality(StartingAt(OutputCrossing(x, y, e))) = 1
       /\ Cardinality(EndingAt(OutputCrossing(x, y, e))) = 1

\* C27 (segments chain head to tail): for every raster, on each crossed
\* edge that two cells share both cells compute the same crossing point,
\* exactly one extracted segment ends at it and exactly one starts at it;
\* a crossed edge on the border of the raster is the endpoint of exactly
\* one segment.
C27_HeadToTail ==
  pc \in {"stitch", "done"} =>
    \A cell \in Cells(img) :
      \A e \in TableEdges(LutIndex(img, cell[1], cell[2])) :
        ChainsAcross(cell[1], cell[2], e, NeighbourCell(cell[1], cell[2], e))

\* the segments of a 3x3 raster with a saddle cell, two of whose crossed
\* edges are shared and two on the border, have been extracted
C27_Witness ==
  /\ pc = "stitch"
  /\ img.w = 3 /\ img.h = 3
  /\ \E cell \in Cells(img) : LutIndex(img, cell[1], cell[2]) \in {5, 10}
  /\ scale = 2 * One
  /\ offset # <<0, 0>>

\* ------------------------------------------ from_sdf: interior shapes
BorderPixels(raster) ==
  {p \in DOMAIN raster.px :
     p[1] \in {0, raster.w - 1} \/ p[2] \in {0, raster.h - 1}}
\* no border pixel is negative, the scale is 1 and all pixels have one
\* magnitude, so that every crossing lies at the midpoint of its edge
InteriorShapes ==
  /\ \A p \in BorderPixels(img) : img.px[p] >= 0
  /\ \A p, q \in DOMAIN img.px : Abs(img.px[p]) = Abs(img.px[q])
  /\ scale = One

\* C28 (interior shapes are never lost): for a raster without a negative
\* border pixel, scale 1 and crossings at the edge midpoints, no iteration
\* of the stitching loop takes the discard arm, the loop is not left with a
\* chain open, and when from_sdf has returned every extracted segment has
\* been consumed once, in a chain that was added to the slice as a contour.
C28_InteriorShapes ==
  InteriorShapes =>
    /\ (pc = "stitch" /\ segments_left > 0)
         => LoopBody(Locals).branch \notin {"discard", "break"}
    /\ (pc = "stitch" /\ segments_left = 0) => curr_start = NoIdx
    /\ pc = "done" =>
         /\ curr_start = NoIdx
         /\ acct.dropped = 0
         /\ acct.final = Len(segments)
         /\ \A i \in 1..Len(segments) : segments[i].used /\ acct.marks[i] = 1

\* from_sdf has returned two contours or more for a raster with a saddle
\* cell among its interior cells
C28_Witness ==
  /\ InteriorShapes
  /\ pc = "done"
  /\ img \in InteriorRasters
  /\ \E cell \in Cells(img) : LutIndex(img, cell[1], cell[2]) \in {5, 10}
  /\ Len(slice.contours) >= 2
  /\ Len(segments) >= 12

\* ------------------------------------------------ reader: the phases
\* 0 before $$HEADERSTART, 1 in the header, 2 between $$HEADEREND and
\* $$GEOMETRYSTART, 3 in the geometry section, 4 after the line loop
PhaseOf(P) ==
  IF P.status # "reading" THEN 4
  ELSE IF P.geometry_started THEN 3
  ELSE IF P.header_ended THEN 2
  ELSE IF P.header_started THEN 1
  ELSE 0
\* the fields of CliResult that the header section fills
HeaderFields(P) ==
  [P.result EXCEPT !.slices = PolySliceStackNew, !.warnings = << >>]
\* the step reads the next physical line of the file
ReadsLine == rd.status = "reading" /\ line_no' = line_no + 1
\* a $$LAYER or $$POLYLINE record
IsGeometryRecord(t) == IsLayerRecord(t) \/ IsPolylineRecord(t)
\* the step reads a $$LAYER or $$POLYLINE record before the geometry
\* section has begun
ReadsEarlyRecord ==
  /\ ReadsLine
  /\ ~rd.geometry_started
  /\ IsGeometryRecord(Trim(StripComment(line')))
NothingCreated ==
  /\ rd'.slices = rd.slices
  /\ rd'.current_slice = rd.current_slice
  /\ rd'.result.slices = rd.result.slices
\* the flags of the phases are never reset and are set in order; a header
\* line read after $$HEADEREND leaves the header fields alone; after the
\* break at $$GEOMETRYEND no line is read, the next step is the return
PhasesInOrder ==
  /\ PhaseOf(rd') >= PhaseOf(rd)
  /\ rd.header_started => rd'.header_started
  /\ rd.header_ended => rd'.header_ended
  /\ rd.geometry_started => rd'.geometry_started
  /\ rd'.geometry_started => rd'.header_ended
  /\ rd'.header_ended => rd'.header_started
  /\ rd.header_ended => HeaderFields(rd') = HeaderFields(rd)
  /\ rd.status = "done" =>
       /\ line_no' = line_no
       /\ rd'.status = "ok"
       /\ rd'.result.warnings = rd.result.warnings
       /\ rd'.slices = rd.slices \o rd.current_slice

\* C25 as stated: the reader's phases only advance, header lines after
\* $$HEADEREND leave the header fields alone, no line after the first
\* $$GEOMETRYEND changes the result, and a $$LAYER or $$POLYLINE record
\* read before both $$HEADEREND and $$GEOMETRYSTART creates no slice or
\* contour and raises no error.
C25_AsStated ==
  [][/\ PhasesInOrder
     /\ ReadsEarlyRecord => (NothingCreated /\ rd'.status = "reading")]_vars

\* ------------------------------------------------- reader: the units
\* C29 as stated: once the reader has scaled the Z of a $$LAYER record of
\* the geometry section by the units factor, that factor is above zero; no
\* file is read with a factor of 0, a file without a $$UNITS line included.
C29_AsStated == hist.layers > 0 => rd.result.units_header > 0

\* --------------------------------------------------- vectorize: claims
ZsAscend(slices) ==
  \A i \in 1..(Len(slices) - 1) : slices[i].z_pos < slices[i + 1].z_pos

\* C21 (vectorize): vectorize returns either an error and no stack, or a
\* stack of at least one slice whose last slice has a contour, whose z_pos
\* values ascend strictly, and in which no slice without a contour has the
\* z_pos of the first layer, layer_height; when no layer has a contour it
\* returns an error.
C21_Vectorize ==
  /\ vz.pc = "err" => vz.result = PolySliceStackNew
  /\ vz.pc = "ok" =>
       /\ Len(vz.result.slices) >= 1
       /\ vz.result.slices[Len(vz.result.slices)].contours # << >>
       /\ ZsAscend(vz.result.slices)
       /\ \A i \in 1..Len(vz.result.slices) :
            vz.result.slices[i].contours = << >>
              => vz.result.slices[i].z_pos # vz.layer_height
       /\ \E i \in 1..Len(vz.layers) : vz.layers[i] = "shape"
  /\ (vz.pc \in {"ok", "err"} /\ \A i \in 1..Len(vz.layers) : vz.layers[i] = "empty")
       => vz.pc = "err"

\* vectorize has returned a stack for a field whose first and last layers
\* have no contour and which has a layer without one between two with
C21_Witness ==
  /\ vz.pc = "ok"
  /\ vz.layers = <<"empty", "shape", "empty", "shape", "empty">>
  /\ Len(vz.result.slices) = 3
  /\ vz.result.slices[2].contours = << >>
  /\ vz.z_step = One \div 2

\* ------------------------------------------------ the FFI lock: claims
Holders == {t \in Threads : ffi.held[t] > 0}
LockFree == ffi.owner = NoOwner
Contending == {t \in Threads : ffi.at[t] \in {"lock", "wait"}}

\* C30 (the FFI lock): at most one thread runs a closure under the lock;
\* owner is None exactly when depth is 0, and depth is the number of guards
\* the owner holds; a thread that holds no guard gets one only when depth
\* is 0; when the lock is free and a thread waits in the Condvar, some
\* thread has been woken and is about to take the lock, and whenever the
\* lock is free and some thread wants it, a thread acquires it.
C30_FfiLock ==
  /\ [](Cardinality(Holders) <= 1)
  /\ [](LockFree <=> ffi.depth = 0)
  /\ [](~LockFree => /\ ffi.depth = ffi.held[ffi.owner]
                     /\ Holders = {ffi.owner})
  /\ [][\A t \in Threads :
          (ffi.held[t] = 0 /\ ffi'.held[t] > 0) => (ffi.depth = 0 /\ LockFree)]_vars
  /\ []((LockFree /\ Waiting(ffi) # {})
          => \E t \in Threads : ffi.at[t] = "lock")
  /\ (LockFree /\ Contending # {}) ~> ~LockFree

\* a thread holds MaxNest guards while the other threads wait in the
\* Condvar
C30_Witness ==
  /\ ffi.owner = 1
  /\ ffi.depth = MaxNest
  /\ ffi.held[1] = MaxNest
  /\ \A t \in Threads \ {1} : ffi.at[t] = "wait"

=============================================================================
